---------------------------- MODULE Spec2Model ----------------------------
(***************************************************************************)
(* A model of the coroutine samples of cppcorosample.                      *)
(*                                                                         *)
(* Every sample is a main program (the driver) and one coroutine (the      *)
(* body).  The coroutine frame is the record co: its status, the resume    *)
(* point pc and, for FibonacciGenerator, the locals that live across a     *)
(* suspension (i, n1, n2).  A resume runs the body synchronously up to the *)
(* next suspension point, so one action of the model is one statement of   *)
(* the driver together with all body code that statement runs.             *)
(*                                                                         *)
(* The await samples (Simple, Tasks, Awaiters, Tasks12) are driven by      *)
(* their main.  The generator samples (Fibonacci, CountToThree) are driven *)
(* either by their main (the while loop) or by a free driver that calls    *)
(* operator bool, operator(), the copy constructor and the destructor in   *)
(* any order.  The fade-out sample (FadeOut) is driven by the engine: one  *)
(* call of CoroFadeOut, then ticks of the callbacks WaitSecondsTask        *)
(* registers.  It has three variants: FadeOut steps an integer and tests   *)
(* the camera manager in the loop, FadeOutFloat steps a float and tests    *)
(* the pointer once, FadeOutReadme (the README's listing) steps an integer *)
(* and tests GWorld and the pointer in the loop.  A float is the integer n *)
(* that stands for n * 2^-30, and                                          *)
(* every float operation rounds as single precision does.  Three more      *)
(* bodies throw an exception (SimpleThrow, YieldThrow, ThrowFirst).  ev    *)
(* records the steps of the coroutine protocol in the order in which they  *)
(* are taken.  FairSpec and MainFairSpec add the fairness the liveness     *)
(* properties need, for the fade-out and for the generators' main.         *)
(* RangeSpec runs the Fibonacci sample's main with the Amounts that take   *)
(* n1 + n2 to the end of int; the addition is a 32-bit signed one.         *)
(***************************************************************************)
EXTENDS Integers, Sequences, FiniteSets, TLC

VARIABLES
    sample,     \* which program runs
    driver,     \* "main": the sample's main; "free": any sequence of generator calls
    Amount,     \* the argument of FibonacciGenerator
    mainPc,     \* position of the driver
    co,         \* the coroutine frame
    Value,      \* CoroPromise::Value, the generator's single slot, an int object
    out,        \* standard output, one entry per printed line (or printed number)
    yielded,    \* the operands of the co_yield expressions executed so far
    nResume,    \* number of Handle.resume() calls made so far
    nAdvance,   \* number of operator bool calls made so far
    nTrue,      \* number of operator bool calls that returned true
    advRet,     \* result of the latest operator bool call: "none", "true", "false"
    nRead,      \* number of operator() calls since the latest operator bool call
    nReadTotal, \* number of operator() calls made so far
    lastRead,   \* result of the latest operator() call, an int object
    owners,     \* number of live CoroGenerator objects that hold the Handle
    nCopy,      \* number of copies made of the CoroGenerator object
    nDestroy,   \* number of Handle.destroy() calls made so far
    ev,         \* the steps of the coroutine protocol taken so far, in order
    GWorld,     \* fade-out: GWorld is not null
    CameraValid,\* fade-out: the world's camera manager exists and is valid
    CameraManager, \* fade-out: the coroutine's pointer: "unset", "null", "object"
    Delay,      \* fade-out: the Time handed to WaitSecondsTask, a float
    TimeRemaining, \* fade-out: WaitSecondsTask::TimeRemaining of the latest task
    tickers,    \* fade-out: number of ticker callbacks registered
    fades,      \* fade-out: the levels passed to SetManualCameraFade, floats
    invalidCalls, \* fade-out: SetManualCameraFade calls on an invalid camera manager
    elapsed,    \* fade-out: exact sum of the DeltaTime since the latest suspension
    nTicks,     \* fade-out: callbacks run since the latest suspension
    lastDelta,  \* fade-out: the DeltaTime of the latest callback run
    touched,    \* fade-out: the accesses the latest callback run made to its task
    ub          \* the run has left the contract (undefined behaviour)

vars == <<sample, driver, Amount, mainPc, co, Value, out, yielded, nResume,
          nAdvance, nTrue, advRet, nRead, nReadTotal, lastRead,
          owners, nCopy, nDestroy, ev, GWorld, CameraValid, CameraManager,
          Delay, TimeRemaining, tickers, fades, invalidCalls, elapsed,
          nTicks, lastDelta, touched, ub>>

\* the variables that count the owners of the generator's Handle
ownVars == <<owners, nCopy, nDestroy>>

\* the variables of the fade-out sample
fadeVars == <<GWorld, CameraValid, CameraManager, Delay, TimeRemaining,
              tickers, fades, invalidCalls, elapsed, nTicks, lastDelta,
              touched>>

---------------------------------------------------------------------------
(* Bounds of the model *)

\* largest Amount handed to FibonacciGenerator
MaxAmount == 11

\* number of negative Amounts tried
MaxNegative == 2

\* largest Amount of the runs that take FibonacciGenerator to the end of int
MaxRangeAmount == 47

\* operator() calls the free driver makes between two operator bool calls
MaxReads == 2

\* copies the free driver makes of the generator object
MaxCopies == 1

\* largest Time handed to WaitSecondsTask, in twentieths of a second (the
\* samples pass .1f, two twentieths)
MaxDelay == 2

\* number of different DeltaTime values the ticker hands to its callbacks
MaxDelta == 3

\* 1.f, as a multiple of 2^-30
OneF == 1073741824

\* .1f, the float nearest to one tenth (0x3dcccccd)
TenthF == 107374184

\* .01f, the float nearest to one hundredth (0x3c23d70a)
HundredthF == 10737418

\* for (int32 Fade = 0; Fade <= 100; Fade += 10)
FadeMax == 100

FadeStep == 10

\* the Amount the sample's main passes
SampleAmount == 10

\* the largest int: FibonacciGenerator's i, n1, n2 and tmp are ints
MaxInt32 == 2147483647

AwaitSamples == {"Simple", "Tasks", "Awaiters", "Tasks12"}

GeneratorSamples == {"Fibonacci", "CountToThree"}

\* bodies that raise an exception, to exercise unhandled_exception:
\* "SimpleThrow" is the simple sample throwing after its resume,
\* "YieldThrow" a generator throwing after its first co_yield,
\* "ThrowFirst" a generator throwing before it yields anything
FaultSamples == {"SimpleThrow", "YieldThrow", "ThrowFirst"}

\* the programs whose coroutine returns a CoroHandle and is driven by main
AwaitPrograms == AwaitSamples \cup {"SimpleThrow"}

\* the programs whose coroutine returns a CoroGenerator
GeneratorPrograms == GeneratorSamples \cup {"YieldThrow", "ThrowFirst"}

\* the fade-out that steps an integer and tests IsValid in the loop
EngineSamples == {"FadeOut"}

\* the fade-out that steps a float and tests the pointer once
FloatSamples == {"FadeOutFloat"}

\* the fade-out of the README's listing: it steps an integer, tests GWorld
\* inside the loop and fetches the camera manager anew in every pass
ReadmeSamples == {"FadeOutReadme"}

\* the fade-outs that step an integer
IntegerSamples == EngineSamples \cup ReadmeSamples

\* the programs driven by the engine's ticker
EnginePrograms == EngineSamples \cup FloatSamples \cup ReadmeSamples

Samples == AwaitPrograms \cup GeneratorPrograms \cup EnginePrograms

\* An int object that was never assigned holds an indeterminate value: any
\* int, and which one the program does not determine (0 in fresh memory,
\* the fill byte of an allocator that perturbs it, whatever an earlier
\* block left there).  The generator only copies the content of its slot
\* and never computes with it, so the content is kept as one value of its
\* own that stands for every int and is equal to none: an int object is
\* << >> while its value is indeterminate and << v >> once it holds v.
Indeterminate == << >>

\* an int object that holds the value v
Determinate(v) == << v >>

\* what std::cout << has printed of int objects holding the values ns, one
\* entry per number
Shown(ns) == [k \in DOMAIN ns |-> Determinate(ns[k])]

---------------------------------------------------------------------------
(* Statements *)

Cout(text) == [op |-> "print", arg |-> text]

CoAwait(awaiter) == [op |-> "co_await", arg |-> awaiter]

CoYield(v) == [op |-> "co_yield", arg |-> v]

Call(what) == [op |-> what, arg |-> ""]

\* throw ...; inside a coroutine body
Throw == [op |-> "throw", arg |-> ""]

\* one step of the coroutine protocol: "call" and "resume" are made by the
\* driver, "return" gives control back to it, "ready" and "not_ready" are
\* the two answers of await_ready, "body" is a statement of the body
Ev(what, arg) == [e |-> what, a |-> arg]

---------------------------------------------------------------------------
(* The awaitables *)

\* a task whose await_ready answers true: the suspension is skipped
await_ready_true(awaiter) == awaiter # "suspend_always"

\* await_ready of every awaitable the samples use
await_ready(awaiter) ==
    CASE awaiter = "suspend_never"  -> TRUE
      [] awaiter = "suspend_always" -> FALSE
      [] OTHER                      -> FALSE

\* the two tasks' messages exchanged
await_suspend_swapped(awaiter) ==
    CASE awaiter = "CoroTaskA"    -> <<"Suspended Using Task B">>
      [] awaiter = "CoroTaskB"    -> <<"Suspended Using Task A">>
      [] awaiter = "CoroAwaiterA" -> <<"Suspended Using Awaiter B">>
      [] awaiter = "CoroAwaiterB" -> <<"Suspended Using Awaiter A">>
      [] awaiter = "CoroTask1"    -> <<"Suspended Using Task 2">>
      [] awaiter = "CoroTask2"    -> <<"Suspended Using Task 1">>
      [] OTHER                    -> <<>>

\* what await_suspend writes to the output
await_suspend(awaiter) ==
    CASE awaiter = "CoroTaskA"    -> <<"Suspended Using Task A">>
      [] awaiter = "CoroTaskB"    -> <<"Suspended Using Task B">>
      [] awaiter = "CoroAwaiterA" -> <<"Suspended Using Awaiter A">>
      [] awaiter = "CoroAwaiterB" -> <<"Suspended Using Awaiter B">>
      [] awaiter = "CoroTask1"    -> <<"Suspended Using Task 1">>
      [] awaiter = "CoroTask2"    -> <<"Suspended Using Task 2">>
      [] OTHER                    -> <<>>

\* what await_resume writes to the output: nothing, in every awaitable
await_resume(awaiter) == <<>>

---------------------------------------------------------------------------
(* The promises *)

\* every promise suspending at the start
initial_suspend_always(s) == "suspend_always"

\* every promise starting its body at once
initial_suspend_never(s) == "suspend_never"

initial_suspend(s) ==
    IF s \in GeneratorPrograms THEN "suspend_always" ELSE "suspend_never"

\* every promise releasing the frame when the body finishes
final_suspend_never(s) == "suspend_never"

\* every promise keeping the frame when the body finishes
final_suspend_always(s) == "suspend_always"

final_suspend(s) ==
    IF s \in GeneratorPrograms THEN "suspend_always" ELSE "suspend_never"

\* void return_void() {}: the slot after it
return_void(V) == V

\* an unhandled_exception that throws the exception on: throw;
unhandled_exception_rethrow == "rethrow"

\* void unhandled_exception() {}: the exception ends here
unhandled_exception == "swallow"

\* a yield_value that does not store its operand
yield_value_keep(V, from) == V

\* a yield_value that stores only into a slot never assigned before
yield_value_first(V, from) ==
    IF V = Indeterminate THEN Determinate(from) ELSE V

\* the slot after Value = std::forward<From>(from)
yield_value(V, from) == Determinate(from)

\* a yield_value returning std::suspend_never
yield_awaiter_never == "suspend_never"

\* the awaitable yield_value returns
yield_awaiter == "suspend_always"

---------------------------------------------------------------------------
(* The coroutine bodies *)

CoroTest(s) ==
    CASE s = "Simple" ->
           << Cout("CoroTest Before Suspend"),
              CoAwait("CoroHandle"),
              Cout("CoroTest After Resume") >>
      [] s = "Tasks" ->
           << Cout("CoroTest Before Suspend"),
              CoAwait("CoroTaskA"),
              Cout("CoroTest After First Resume"),
              CoAwait("CoroTaskB"),
              Cout("CoroTest After Second Resume") >>
      [] s = "Awaiters" ->
           << Cout("CoroTest Before Suspend"),
              CoAwait("CoroAwaiterA"),
              Cout("CoroTest After First Resume"),
              CoAwait("CoroAwaiterB"),
              Cout("CoroTest After Second Resume") >>
      [] s = "Tasks12" ->
           << Cout("CoroTest Before Suspend"),
              CoAwait("CoroTask1"),
              Cout("CoroTest After First Resume"),
              CoAwait("CoroTask2"),
              Cout("CoroTest After Second Resume") >>
      [] s = "SimpleThrow" ->
           << Cout("CoroTest Before Suspend"),
              CoAwait("CoroHandle"),
              Throw,
              Cout("CoroTest After Resume") >>
      [] s = "YieldThrow" -> << CoYield(1), Throw, CoYield(2) >>
      [] s = "ThrowFirst" -> << Throw, CoYield(1) >>
      [] OTHER -> << >>

CountToThree == << CoYield(1), CoYield(2), CoYield(3) >>

Body(s) == IF s = "CountToThree" THEN CountToThree ELSE CoroTest(s)

\* the frame before any body code has run
\* end: how the body ended: "none" while it has not, "co_return",
\* "fall" (off its last statement), "exception", "rethrown"
\* ovf: the addition n1 + n2 of the latest loop pass left the range of int
NoFrame == [status |-> "none", pc |-> 0, i |-> 0, n1 |-> 0, n2 |-> 0,
            end |-> "none", ovf |-> FALSE]

NewFrame == [status |-> "suspended", pc |-> 1, i |-> 0, n1 |-> 0, n2 |-> 0,
             end |-> "none", ovf |-> FALSE]

\* the body has run past its last statement: co_await final_suspend()
FinalSuspend(s, c) ==
    [c EXCEPT !.status =
        IF await_ready(final_suspend(s)) THEN "destroyed" ELSE "done"]

\* co_await on an awaitable whose await_suspend gives control back before
\* it has run
AwaitSteps_returnFirst(ready, awaiter) ==
    IF ready
    THEN << Ev("ready", awaiter), Ev("await_resume", awaiter) >>
    ELSE << Ev("not_ready", awaiter), Ev("return", ""),
            Ev("await_suspend", awaiter) >>

\* The protocol steps of co_await on an awaitable whose await_ready has
\* answered `ready`, up to the point where the body goes on (ready) or
\* control is back at the driver (not ready).
AwaitSteps(ready, awaiter) ==
    IF ready
    THEN << Ev("ready", awaiter), Ev("await_resume", awaiter) >>
    ELSE << Ev("not_ready", awaiter), Ev("await_suspend", awaiter),
            Ev("return", "") >>

AwaitEvents(awaiter) == AwaitSteps(await_ready(awaiter), awaiter)

\* The body has ended in the way `how`: co_await final_suspend(), after
\* which control is back at the driver.
BodyEnd(s, c, how, V, o, ys, es) ==
    [co |-> FinalSuspend(s, [c EXCEPT !.end = how]),
     Value |-> V, out |-> o, yielded |-> ys,
     ev |-> es \o AwaitEvents(final_suspend(s)) \o
            (IF await_ready(final_suspend(s)) THEN << Ev("return", "") >>
             ELSE << >>)]

\* a co_return that only suspends the body once more
CoReturn_suspend(s, c, V, o, ys, es) ==
    [co |-> [c EXCEPT !.end = "co_return"],
     Value |-> V, out |-> o, yielded |-> ys,
     ev |-> Append(es, Ev("return", ""))]

\* co_return; calls return_void() and goes to the final suspension
CoReturn(s, c, V, o, ys, es) ==
    BodyEnd(s, c, "co_return", return_void(V), o, ys,
            Append(es, Ev("return_void", "")))

\* control flows off the end of the body: the same as co_return;
FallOffEnd(s, c, V, o, ys, es) ==
    BodyEnd(s, c, "fall", return_void(V), o, ys,
            Append(es, Ev("return_void", "")))

\* an exception leaves the body: it is caught, unhandled_exception() is
\* called, and the body goes to the final suspension unless that call
\* throws the exception on to the caller of resume
ExceptionEscapes(s, c, V, o, ys, es) ==
    IF unhandled_exception = "swallow"
    THEN BodyEnd(s, c, "exception", V, o, ys,
                 Append(es, Ev("unhandled_exception", "")))
    ELSE [co |-> [c EXCEPT !.status = "done", !.end = "rethrown"],
          Value |-> V, out |-> o, yielded |-> ys,
          ev |-> es \o << Ev("unhandled_exception", ""), Ev("throw", "") >>]

\* Runs the statements of Body(s) from statement pc on, up to the next
\* suspension or to the end of the body.
RECURSIVE RunBody(_, _, _, _, _, _)
RunBody(s, pc, V, o, ys, es) ==
    IF pc > Len(Body(s))
    THEN FallOffEnd(s, [NewFrame EXCEPT !.pc = pc], V, o, ys, es)
    ELSE LET st == Body(s)[pc] IN
         CASE st.op = "print" ->
                RunBody(s, pc + 1, V, Append(o, st.arg), ys,
                        Append(es, Ev("body", st.arg)))
           [] st.op = "throw" ->
                ExceptionEscapes(s, [NewFrame EXCEPT !.pc = pc + 1],
                                 V, o, ys, Append(es, Ev("body", "throw")))
           [] st.op = "co_await" ->
                IF await_ready(st.arg)
                THEN RunBody(s, pc + 1, V, o \o await_resume(st.arg), ys,
                             es \o AwaitEvents(st.arg))
                ELSE [co |-> [NewFrame EXCEPT !.pc = pc + 1],
                      Value |-> V,
                      out |-> o \o await_suspend(st.arg),
                      yielded |-> ys,
                      ev |-> es \o AwaitEvents(st.arg)]
           [] st.op = "co_yield" ->
                IF await_ready(yield_awaiter)
                THEN RunBody(s, pc + 1, yield_value(V, st.arg), o,
                             Append(ys, st.arg),
                             Append(es, Ev("body", "co_yield"))
                                 \o AwaitEvents(yield_awaiter))
                ELSE [co |-> [NewFrame EXCEPT !.pc = pc + 1],
                      Value |-> yield_value(V, st.arg),
                      out |-> o,
                      yielded |-> Append(ys, st.arg),
                      ev |-> Append(es, Ev("body", "co_yield"))
                                 \o AwaitEvents(yield_awaiter)]

\* The exact sum a + b of two ints is not an int: the addition is a signed
\* overflow.  The test is made without forming the sum.
Int32Overflows(a, b) ==
    \/ b > 0 /\ a > MaxInt32 - b
    \/ b < 0 /\ a < (0 - MaxInt32 - 1) - b

\* a + b on short: the sum modulo 2^16
Int32Add_short(a, b) ==
    IF a + b > 32767 THEN a + b - 65536
    ELSE IF a + b < 0 - 32768 THEN a + b + 65536
    ELSE a + b

\* a + b on int: the exact sum where it fits, and where it does not the
\* sum modulo 2^32, which is what the addition leaves when it does not trap
Int32Add(a, b) ==
    IF ~Int32Overflows(a, b) THEN a + b
    ELSE IF b > 0 THEN (a - MaxInt32 - 1) + (b - MaxInt32 - 1)
    ELSE (a + MaxInt32 + 1) + (b + MaxInt32 + 1)

\* n2 = n2 + n2;
NextFibonacci_double(n1, n2) == Int32Add(n2, n2)

\* n2 = n1 + n2;
NextFibonacci(n1, n2) == Int32Add(n1, n2)

\* The for loop of FibonacciGenerator from its test on, with the locals
\* i, n1, n2, all of them int: one pass of the loop body per co_yield.
RECURSIVE FibonacciLoop(_, _, _, _, _, _, _, _)
FibonacciLoop(A, i, n1, n2, V, o, ys, es) ==
    IF i <= A
    THEN IF i < 3
         THEN IF await_ready(yield_awaiter)
              THEN FibonacciLoop(A, Int32Add(i, 1), n1, n2,
                                 yield_value(V, 1), o,
                                 Append(ys, 1),
                                 Append(es, Ev("body", "co_yield"))
                                     \o AwaitEvents(yield_awaiter))
              ELSE [co |-> [status |-> "suspended", pc |-> 2,
                            i |-> i, n1 |-> n1, n2 |-> n2, end |-> "none",
                            ovf |-> FALSE],
                    Value |-> yield_value(V, 1),
                    out |-> o,
                    yielded |-> Append(ys, 1),
                    ev |-> Append(es, Ev("body", "co_yield"))
                               \o AwaitEvents(yield_awaiter)]
         ELSE LET tmp  == n2
                  new2 == NextFibonacci(n1, n2)
                  new1 == tmp
              IN  IF await_ready(yield_awaiter)
                  THEN FibonacciLoop(A, Int32Add(i, 1), new1, new2,
                                     yield_value(V, new2), o, Append(ys, new2),
                                     Append(es, Ev("body", "co_yield"))
                                         \o AwaitEvents(yield_awaiter))
                  ELSE [co |-> [status |-> "suspended", pc |-> 3,
                                i |-> i, n1 |-> new1, n2 |-> new2,
                                end |-> "none",
                                ovf |-> Int32Overflows(n1, n2)],
                        Value |-> yield_value(V, new2),
                        out |-> o,
                        yielded |-> Append(ys, new2),
                        ev |-> Append(es, Ev("body", "co_yield"))
                                   \o AwaitEvents(yield_awaiter)]
    ELSE FallOffEnd("Fibonacci",
                    [status |-> "suspended", pc |-> 4,
                     i |-> i, n1 |-> n1, n2 |-> n2, end |-> "none",
                     ovf |-> FALSE],
                    V, o, ys, es)

\* FibonacciGenerator without its early co_return and with i starting at 0
FibonacciGenerator_from0(A, c, V, o, ys, es) ==
    IF c.pc = 1
    THEN FibonacciLoop(A, 0, 1, 1, V, o, ys, es)
    ELSE LET r == FibonacciLoop(A, Int32Add(c.i, 1), c.n1, c.n2, V, o, ys, es)
         IN  IF Int32Overflows(c.i, 1) THEN [r EXCEPT !.co.ovf = TRUE] ELSE r

\* FibonacciGenerator(Amount) resumed in frame c: pc 1 is the start of the
\* body, pc 2 the co_yield 1, pc 3 the co_yield n2.  A resume after a
\* co_yield starts with the loop's i++ on the int i: with i at 2^31 - 1
\* (Amount = 2^31 - 1) the increment overflows, which is undefined like the
\* overflow of n1 + n2; where it does not trap i wraps to -2^31 and the
\* loop goes on.
FibonacciGenerator(A, c, V, o, ys, es) ==
    IF c.pc = 1
    THEN IF A <= 0
         THEN CoReturn("Fibonacci", [c EXCEPT !.pc = 4], V, o, ys, es)
         ELSE FibonacciLoop(A, 1, 1, 1, V, o, ys, es)
    ELSE LET r == FibonacciLoop(A, Int32Add(c.i, 1), c.n1, c.n2, V, o, ys, es)
         IN  IF Int32Overflows(c.i, 1) THEN [r EXCEPT !.co.ovf = TRUE] ELSE r

\* The awaitable frame c is suspended at.
SuspendedAt(s, c) ==
    IF s = "Fibonacci"
    THEN IF c.pc = 1 THEN initial_suspend(s) ELSE yield_awaiter
    ELSE IF c.pc = 1 THEN initial_suspend(s)
         ELSE IF Body(s)[c.pc - 1].op = "co_yield" THEN yield_awaiter
              ELSE Body(s)[c.pc - 1].arg

\* The body goes on in frame c: await_resume of the awaitable it stands
\* at, then the body from that point on.
Resumed(s, A, c, V, o, ys, es) ==
    IF s = "Fibonacci"
    THEN FibonacciGenerator(A, c, V, o \o await_resume(SuspendedAt(s, c)), ys,
                            Append(es, Ev("await_resume", SuspendedAt(s, c))))
    ELSE RunBody(s, c.pc, V, o \o await_resume(SuspendedAt(s, c)), ys,
                 Append(es, Ev("await_resume", SuspendedAt(s, c))))

\* coroutine_handle::resume() on the suspended frame c
Continue(s, A, c, V, o, ys, es) ==
    Resumed(s, A, c, V, o, ys, Append(es, Ev("resume", "")))

\* Calling the coroutine function: the frame is made and initial_suspend
\* decides whether the body starts at once.
InvokeCoroutine(s, A, V, o, ys, es) ==
    IF await_ready(initial_suspend(s))
    THEN Resumed(s, A, NewFrame, V, o, ys,
                 es \o << Ev("call", ""), Ev("ready", initial_suspend(s)) >>)
    ELSE [co |-> NewFrame, Value |-> V, out |-> o, yielded |-> ys,
          ev |-> Append(es, Ev("call", "")) \o AwaitEvents(initial_suspend(s))]

\* Handle.done()
done(c) == c.status = "done"

\* operator bool returning Handle.done() itself
OperatorBool_noNot(s, A, c, V, o, ys, es) ==
    LET r == Continue(s, A, c, V, o, ys, es)
    IN  [co |-> r.co, Value |-> r.Value, out |-> r.out,
         yielded |-> r.yielded, ev |-> r.ev, ret |-> done(r.co)]

\* explicit operator bool(): Handle.resume(); return !Handle.done();
OperatorBool(s, A, c, V, o, ys, es) ==
    LET r == Continue(s, A, c, V, o, ys, es)
    IN  [co |-> r.co, Value |-> r.Value, out |-> r.out,
         yielded |-> r.yielded, ev |-> r.ev, ret |-> ~done(r.co)]

\* an operator() that resumes the body to fetch the next value
OperatorCall_resuming(s, A, c, V, o, ys, es) ==
    IF c.status = "suspended"
    THEN LET r == Continue(s, A, c, V, o, ys, es)
         IN  [co |-> r.co, Value |-> r.Value, out |-> r.out,
              yielded |-> r.yielded, ev |-> r.ev, ret |-> r.Value]
    ELSE [co |-> c, Value |-> V, out |-> o, yielded |-> ys, ev |-> es,
          ret |-> V]

\* T operator()(): return std::move(Handle.promise().Value); moving an int
\* copies it, so the slot keeps its value, and the Handle is not touched
OperatorCall(s, A, c, V, o, ys, es) ==
    [co |-> c, Value |-> V, out |-> o, yielded |-> ys, ev |-> es, ret |-> V]

\* ~CoroGenerator(): Handle.destroy()
DestroyGenerator(c) == [c EXCEPT !.status = "destroyed"]

\* CoroGenerator(const CoroGenerator&), implicitly declared: the new object's
\* Handle is a copy of the old one's; n objects held the frame before
CopyGenerator(n) == n + 1

---------------------------------------------------------------------------
(* Single-precision arithmetic.  The float x is the integer x * 2^30.  The *)
(* floats of the model are 0 or between 2^-7 and 2 in magnitude, so each   *)
(* of them is such an integer, and so is every exact sum, difference and   *)
(* product the model rounds.                                               *)

Abs(n) == IF n < 0 THEN 0 - n ELSE n

\* the distance between neighbouring floats at magnitude a: a float has a
\* significand of 24 bits
RECURSIVE UlpFrom(_, _)
UlpFrom(a, u) == IF a \div u < 16777216 THEN u ELSE UlpFrom(a, 2 * u)

Ulp(a) == UlpFrom(a, 1)

\* the exact value n stored in a float: round to nearest, ties to even
F32Round(n) ==
    LET a == Abs(n)
        u == Ulp(a)
        q == a \div u
        r == a % u
        m == IF 2 * r < u \/ (2 * r = u /\ q % 2 = 0) THEN q ELSE q + 1
    IN  IF n < 0 THEN 0 - m * u ELSE m * u

\* TimeRemaining -= DeltaTime;
FloatSub(x, y) == F32Round(x - y)

\* Fade += .1f
FloatAdd(x, y) == F32Round(x + y)

\* Fade / 100 with the division made on the ints
FadeLevel_intDivision(Fade) == F32Round((Fade \div FadeMax) * OneF)

\* (float)Fade * .01f, Fade an int32
FadeLevel(Fade) == F32Round(Fade * HundredthF)

---------------------------------------------------------------------------
(* The fade-out sample *)

\* a WaitSecondsTask that is ready only for a negative time
WaitSecondsTask_await_ready_negative(TimeLeft) == TimeLeft < 0

\* bool await_ready() { return TimeRemaining <= 0.f; }
WaitSecondsTask_await_ready(TimeLeft) == TimeLeft <= 0

\* a callback that lets the exact end of the wait pass
Expired_strict(TimeLeft) == TimeLeft < 0

\* if (TimeRemaining <= 0.f), in the ticker callback
Expired(TimeLeft) == TimeLeft <= 0

\* an await_suspend that registers its callback twice
AddTicker_twice(tk) == tk + 2

\* an await_suspend that registers nothing
AddTicker_none(tk) == tk

\* TickerHandle = FTSTicker::GetCoreTicker().AddTicker(...)
AddTicker(tk) == tk + 1

\* a callback that stays registered
RemoveTicker_keep(tk) == tk

\* FTSTicker::GetCoreTicker().RemoveTicker(TickerHandle);
RemoveTicker(tk) == tk - 1

\* UGameplayStatics::GetPlayerCameraManager(GWorld, 0): the world's camera
\* manager, or null if it has none
GetPlayerCameraManager(valid) == IF valid THEN "object" ELSE "null"

\* IsValid(CameraManager): the pointer is not null and its object is valid
IsValid(ptr, valid) == ptr = "object" /\ valid

\* The for loop of CoroFadeOut (integer variant) from its test on: the
\* camera fade is set if the camera manager is valid, then the body waits on
\* WaitSecondsTask(d), whose await_suspend registers a ticker callback.  tr
\* is TimeRemaining of the latest task and tk the number of registered
\* callbacks.
RECURSIVE FadeLoop(_, _, _, _, _, _, _, _)
FadeLoop(Fade, ptr, valid, d, fs, tr, tk, es) ==
    IF Fade <= FadeMax
    THEN LET fs2 == IF IsValid(ptr, valid)
                    THEN Append(fs, FadeLevel(Fade))
                    ELSE fs
             es2 == IF IsValid(ptr, valid)
                    THEN Append(es, Ev("body", "SetManualCameraFade"))
                    ELSE es
             es3 == es2 \o AwaitSteps(WaitSecondsTask_await_ready(d),
                                      "WaitSecondsTask")
         IN  IF WaitSecondsTask_await_ready(d)
             THEN FadeLoop(Fade + FadeStep, ptr, valid, d, fs2, d, tk, es3)
             ELSE [co |-> [NewFrame EXCEPT !.pc = 2, !.i = Fade],
                   fades |-> fs2, TimeRemaining |-> d,
                   tickers |-> AddTicker(tk), invalidCalls |-> 0,
                   ub |-> FALSE, ev |-> es3]
    ELSE LET r == FallOffEnd("FadeOut", [NewFrame EXCEPT !.pc = 3, !.i = Fade],
                             0, << >>, << >>, es)
         IN  [co |-> r.co, fades |-> fs, TimeRemaining |-> tr, tickers |-> tk,
              invalidCalls |-> 0, ub |-> FALSE, ev |-> r.ev]

\* The body of CoroFadeOut (integer variant) from its first statement on.
CoroFadeOut(gw, valid, d, fs, tr, tk, es) ==
    IF gw
    THEN FadeLoop(0, GetPlayerCameraManager(valid), valid, d, fs, tr, tk, es)
    ELSE LET r == FallOffEnd("FadeOut", [NewFrame EXCEPT !.pc = 3],
                             0, << >>, << >>, es)
         IN  [co |-> r.co, fades |-> fs, TimeRemaining |-> tr, tickers |-> tk,
              invalidCalls |-> 0, ub |-> FALSE, ev |-> r.ev]

\* CameraManager->SetManualCameraFade(level, ...) of the float variant: the
\* pointer is not tested again.  On an object that is no longer valid the
\* call is undefined: it passes unnoticed or it ends the process (crash).
SetManualCameraFade(level, valid, crash, fs, bad, es) ==
    [fades |-> Append(fs, level),
     invalidCalls |-> IF valid THEN bad ELSE bad + 1,
     ub |-> ~valid /\ crash,
     ev |-> Append(es, Ev("body", "SetManualCameraFade"))]

\* The for loop of CoroFadeOut (float variant) from its test on, and the
\* call that follows the loop.  bad counts the calls made on an invalid
\* camera manager.
RECURSIVE FadeLoopFloat(_, _, _, _, _, _, _, _, _)
FadeLoopFloat(Fade, valid, crash, d, fs, tr, tk, bad, es) ==
    LET c == SetManualCameraFade(IF Fade <= OneF THEN Fade ELSE OneF,
                                 valid, crash, fs, bad, es)
        es3 == c.ev \o AwaitSteps(WaitSecondsTask_await_ready(d),
                                  "WaitSecondsTask")
    IN  IF c.ub
        THEN [co |-> [NewFrame EXCEPT !.status = "crashed", !.pc = 2,
                                      !.i = Fade],
              fades |-> c.fades, TimeRemaining |-> tr, tickers |-> tk,
              invalidCalls |-> c.invalidCalls, ub |-> TRUE, ev |-> c.ev]
        ELSE IF Fade <= OneF
        THEN IF WaitSecondsTask_await_ready(d)
             THEN FadeLoopFloat(FloatAdd(Fade, TenthF), valid, crash, d,
                                c.fades, d, tk, c.invalidCalls, es3)
             ELSE [co |-> [NewFrame EXCEPT !.pc = 2, !.i = Fade],
                   fades |-> c.fades, TimeRemaining |-> d,
                   tickers |-> AddTicker(tk),
                   invalidCalls |-> c.invalidCalls, ub |-> FALSE, ev |-> es3]
        ELSE LET r == FallOffEnd("FadeOutFloat",
                                 [NewFrame EXCEPT !.pc = 3, !.i = Fade],
                                 0, << >>, << >>, c.ev)
             IN  [co |-> r.co, fades |-> c.fades, TimeRemaining |-> tr,
                  tickers |-> tk, invalidCalls |-> c.invalidCalls,
                  ub |-> FALSE, ev |-> r.ev]

\* The body of CoroFadeOut (float variant) from its first statement on.
CoroFadeOutFloat(gw, valid, d, fs, tr, tk, es) ==
    IF gw /\ GetPlayerCameraManager(valid) # "null"
    THEN FadeLoopFloat(0, valid, FALSE, d, fs, tr, tk, 0, es)
    ELSE LET r == FallOffEnd("FadeOutFloat", [NewFrame EXCEPT !.pc = 3],
                             0, << >>, << >>, es)
         IN  [co |-> r.co, fades |-> fs, TimeRemaining |-> tr, tickers |-> tk,
              invalidCalls |-> 0, ub |-> FALSE, ev |-> r.ev]

\* UGameplayStatics::GetPlayerCameraManager(GWorld, 0) called once more,
\* the call before having returned last: a camera manager that is valid is
\* returned; one that has stopped being valid since is still returned
\* (stale) or is no longer (null), as the engine has it
GetPlayerCameraManagerAgain(last, valid, stale) ==
    IF valid THEN "object"
    ELSE IF last = "object" /\ stale THEN "object"
    ELSE "null"

\* The for loop of CoroFadeOut (README listing) from its test on.  Every
\* pass tests GWorld, fetches the camera manager and tests the pointer for
\* null only; then it waits, with or without a world.  A call on a camera
\* manager that is no longer valid is undefined (crash: it ends the
\* process).  last is the pointer of the pass before.
RECURSIVE FadeLoopReadme(_, _, _, _, _, _, _, _, _, _, _, _)
FadeLoopReadme(Fade, gw, last, valid, stale, crash, d, fs, tr, tk, bad, es) ==
    IF Fade <= FadeMax
    THEN LET ptr == IF gw THEN GetPlayerCameraManagerAgain(last, valid, stale)
                    ELSE last
             c == IF gw /\ ptr # "null"
                  THEN SetManualCameraFade(FadeLevel(Fade), valid, crash,
                                           fs, bad, es)
                  ELSE [fades |-> fs, invalidCalls |-> bad, ub |-> FALSE,
                        ev |-> es]
             es3 == c.ev \o AwaitSteps(WaitSecondsTask_await_ready(d),
                                       "WaitSecondsTask")
         IN  IF c.ub
             THEN [co |-> [NewFrame EXCEPT !.status = "crashed", !.pc = 2,
                                           !.i = Fade],
                   fades |-> c.fades, TimeRemaining |-> tr, tickers |-> tk,
                   invalidCalls |-> c.invalidCalls, ub |-> TRUE,
                   ev |-> c.ev, CameraManager |-> ptr]
             ELSE IF WaitSecondsTask_await_ready(d)
             THEN FadeLoopReadme(Fade + FadeStep, gw, ptr, valid, stale,
                                 crash, d, c.fades, d, tk, c.invalidCalls,
                                 es3)
             ELSE [co |-> [NewFrame EXCEPT !.pc = 2, !.i = Fade],
                   fades |-> c.fades, TimeRemaining |-> d,
                   tickers |-> AddTicker(tk),
                   invalidCalls |-> c.invalidCalls, ub |-> FALSE,
                   ev |-> es3, CameraManager |-> ptr]
    ELSE LET r == FallOffEnd("FadeOutReadme",
                             [NewFrame EXCEPT !.pc = 3, !.i = Fade],
                             0, << >>, << >>, es)
         IN  [co |-> r.co, fades |-> fs, TimeRemaining |-> tr, tickers |-> tk,
              invalidCalls |-> bad, ub |-> FALSE, ev |-> r.ev,
              CameraManager |-> last]

\* The body of CoroFadeOut (README listing) from its first statement on.
CoroFadeOutReadme(gw, valid, d, fs, tr, tk, es) ==
    FadeLoopReadme(0, gw, "unset", valid, FALSE, FALSE, d, fs, tr, tk, 0, es)

\* the DeltaTime values the ticker hands out: .05f, .03f, .04f, .25f
FrameTimes == <<53687092, 32212254, 42949672, 268435456>>

DeltaTimes == {FrameTimes[k] : k \in 1..MaxDelta}

\* the Time values handed to WaitSecondsTask: -.05f, 0.f, .05f, .1f, ...
\* (half of .1f is a float, and so is every multiple of it after rounding)
Delays == {F32Round(k * (TenthF \div 2)) : k \in (0 - 1)..MaxDelay}

---------------------------------------------------------------------------
(* The main programs of the await samples *)

\* every main resuming its handle once more before it returns
main_resume_again(s) ==
    CASE s = "Simple" ->
           << Call("invoke"),
              Cout("CoroTest Resuming"),
              Call("resume"),
              Call("resume"),
              Call("return") >>
      [] s \in {"Tasks", "Awaiters", "Tasks12"} ->
           << Call("invoke"),
              Cout("CoroTest First Resuming"),
              Call("resume"),
              Cout("CoroTest Second Resuming"),
              Call("resume"),
              Call("resume"),
              Call("return") >>
      [] OTHER -> << >>

main(s) ==
    CASE s \in {"Simple", "SimpleThrow"} ->
           << Call("invoke"),
              Cout("CoroTest Resuming"),
              Call("resume"),
              Call("return") >>
      [] s \in {"Tasks", "Awaiters", "Tasks12"} ->
           << Call("invoke"),
              Cout("CoroTest First Resuming"),
              Call("resume"),
              Cout("CoroTest Second Resuming"),
              Call("resume"),
              Call("return") >>
      [] OTHER -> << >>

AtStmt(what) ==
    /\ ~ub
    /\ driver = "main"
    /\ sample \in AwaitPrograms
    /\ mainPc \in 1..Len(main(sample))
    /\ main(sample)[mainPc].op = what

\* The state before main runs, FibonacciGenerator's argument being one of
\* Amounts.
InitWith(Amounts) ==
    /\ sample \in Samples
    /\ driver \in (IF sample \in GeneratorPrograms THEN {"main", "free"}
                   ELSE IF sample \in EnginePrograms THEN {"engine"}
                   ELSE {"main"})
    /\ Amount \in (IF sample = "Fibonacci" THEN Amounts ELSE {0})
    /\ mainPc = 1
    /\ co = NoFrame
    /\ Value = Indeterminate
    /\ out = << >>
    /\ yielded = << >>
    /\ nResume = 0
    /\ nAdvance = 0
    /\ nTrue = 0
    /\ advRet = "none"
    /\ nRead = 0
    /\ nReadTotal = 0
    /\ lastRead = Indeterminate
    /\ owners = 0
    /\ nCopy = 0
    /\ nDestroy = 0
    /\ ev = << >>
    /\ GWorld \in (IF sample \in EnginePrograms THEN BOOLEAN ELSE {FALSE})
    /\ CameraValid \in (IF sample \in EnginePrograms THEN BOOLEAN ELSE {FALSE})
    /\ CameraManager = "unset"
    /\ Delay \in (IF sample \in EnginePrograms THEN Delays ELSE {0})
    /\ TimeRemaining = 0
    /\ tickers = 0
    /\ fades = << >>
    /\ invalidCalls = 0
    /\ elapsed = 0
    /\ nTicks = 0
    /\ lastDelta = 0
    /\ touched = << >>
    /\ ub = FALSE

Init == InitWith((0 - MaxNegative)..MaxAmount)

\* CoroHandle handle = CoroTest();
MainInvoke ==
    /\ AtStmt("invoke")
    /\ LET r == InvokeCoroutine(sample, Amount, Value, out, yielded, ev)
       IN  /\ co' = r.co
           /\ out' = r.out
           /\ ev' = r.ev
    /\ mainPc' = mainPc + 1
    /\ UNCHANGED <<ownVars, sample, driver, Amount, Value, yielded, nResume, nAdvance,
                   nTrue, advRet, nRead, nReadTotal, lastRead, ub>>
    /\ UNCHANGED fadeVars

\* std::cout << "...";
MainPrint ==
    /\ AtStmt("print")
    /\ out' = Append(out, main(sample)[mainPc].arg)
    /\ ev' = Append(ev, Ev("driver", main(sample)[mainPc].arg))
    /\ mainPc' = mainPc + 1
    /\ UNCHANGED <<ownVars, sample, driver, Amount, co, Value, yielded, nResume,
                   nAdvance, nTrue, advRet, nRead, nReadTotal, lastRead, ub>>
    /\ UNCHANGED fadeVars

\* handle.resume(); resuming a frame that is not suspended is undefined
MainResume ==
    /\ AtStmt("resume")
    /\ nResume' = nResume + 1
    /\ mainPc' = mainPc + 1
    /\ IF co.status = "suspended"
       THEN LET r == Continue(sample, Amount, co, Value, out, yielded, ev)
            IN  /\ co' = r.co
                /\ out' = r.out
                /\ ev' = r.ev
                /\ ub' = ub
       ELSE /\ ub' = TRUE
            /\ UNCHANGED <<co, out, ev>>
    /\ UNCHANGED <<ownVars, sample, driver, Amount, Value, yielded, nAdvance, nTrue,
                   advRet, nRead, nReadTotal, lastRead>>
    /\ UNCHANGED fadeVars

\* return 0;
MainReturn ==
    /\ AtStmt("return")
    /\ mainPc' = mainPc + 1
    /\ UNCHANGED <<ownVars, sample, driver, Amount, co, Value, out, yielded, nResume,
                   nAdvance, nTrue, advRet, nRead, nReadTotal, lastRead, ub, ev>>
    /\ UNCHANGED fadeVars

---------------------------------------------------------------------------
(* The drivers of the generator samples.  mainPc: 1 before the generator  *)
(* is made, 2 at the while test (free driver: the generator is alive),     *)
(* 3 in the loop body, 4 at return 0, 5 after the generator is destroyed.  *)

\* auto generator = FibonacciGenerator(Amount);  (or CountToThree())
GenConstruct ==
    /\ ~ub
    /\ sample \in GeneratorPrograms
    /\ mainPc = 1
    /\ LET r == InvokeCoroutine(sample, Amount, Value, out, yielded, ev)
       IN  /\ co' = r.co
           /\ Value' = r.Value
           /\ out' = r.out
           /\ yielded' = r.yielded
           /\ ev' = r.ev
    /\ mainPc' = 2
    /\ owners' = 1
    /\ UNCHANGED <<nCopy, nDestroy>>
    /\ UNCHANGED <<sample, driver, Amount, nResume, nAdvance, nTrue, advRet,
                   nRead, nReadTotal, lastRead, ub>>
    /\ UNCHANGED fadeVars

\* A call of operator bool that leaves the driver at pcTrue or pcFalse.
\* Handle.resume() on a frame that is not suspended is undefined, and so is
\* Handle.done() on a frame the resume has released.  A signed overflow of
\* n1 + n2 or of i++ in the body is undefined as well: the build either
\* traps at the addition, and the program ends there, or goes on with the
\* wrapped sum.
Advance(pcTrue, pcFalse) ==
    /\ nAdvance' = nAdvance + 1
    /\ nResume' = nResume + 1
    /\ IF co.status = "suspended"
       THEN LET r == OperatorBool(sample, Amount, co, Value, out, yielded, ev)
            IN  \E trap \in (IF r.co.ovf THEN BOOLEAN ELSE {FALSE}) :
                  IF trap
                  THEN /\ ub' = TRUE
                       /\ UNCHANGED <<co, Value, out, yielded, ev, advRet,
                                      nTrue, mainPc, nRead>>
                  ELSE /\ co' = r.co
                       /\ Value' = r.Value
                       /\ out' = r.out
                       /\ yielded' = r.yielded
                       /\ ev' = r.ev
                       /\ advRet' = IF r.ret THEN "true" ELSE "false"
                       /\ nTrue' = IF r.ret THEN nTrue + 1 ELSE nTrue
                       /\ mainPc' = IF r.ret THEN pcTrue ELSE pcFalse
                       /\ nRead' = 0
                       /\ ub' = (r.co.status = "destroyed")
       ELSE /\ ub' = TRUE
            /\ UNCHANGED <<co, Value, out, yielded, ev, advRet, nTrue, mainPc,
                           nRead>>
    /\ UNCHANGED <<ownVars, sample, driver, Amount, nReadTotal, lastRead>>

\* a destructor that leaves the frame alone
Destructor_noDestroy ==
    /\ owners' = owners - 1
    /\ nDestroy' = nDestroy
    /\ mainPc' = IF owners = 1 THEN 5 ELSE 2
    /\ ub' = ub /\ co' = co

\* One CoroGenerator object goes out of scope: ~CoroGenerator() calls
\* Handle.destroy(); destroying a frame that is already destroyed is
\* undefined.  The driver is done (5) when no object is left.
Destructor ==
    /\ owners' = owners - 1
    /\ nDestroy' = nDestroy + 1
    /\ mainPc' = IF owners = 1 THEN 5 ELSE 2
    /\ IF co.status = "destroyed"
       THEN ub' = TRUE /\ co' = co
       ELSE ub' = ub /\ co' = DestroyGenerator(co)

\* a loop that enters its body whatever the test returned
MainWhile_bodyAnyway ==
    /\ ~ub
    /\ driver = "main"
    /\ sample \in GeneratorPrograms
    /\ mainPc = 2
    /\ Advance(3, 3)
    /\ UNCHANGED fadeVars

\* while (generator)
MainWhile ==
    /\ ~ub
    /\ driver = "main"
    /\ sample \in GeneratorPrograms
    /\ mainPc = 2
    /\ Advance(3, 4)
    /\ UNCHANGED fadeVars

\* std::cout << generator() << " ";
MainLoopBody ==
    /\ ~ub
    /\ driver = "main"
    /\ sample \in GeneratorPrograms
    /\ mainPc = 3
    /\ LET r == OperatorCall(sample, Amount, co, Value, out, yielded, ev)
       IN  /\ co' = r.co
           /\ Value' = r.Value
           /\ yielded' = r.yielded
           /\ lastRead' = r.ret
           /\ out' = Append(r.out, r.ret)
           /\ ev' = Append(r.ev, Ev("driver", "generator()"))
    /\ nRead' = nRead + 1
    /\ nReadTotal' = nReadTotal + 1
    /\ mainPc' = 2
    /\ UNCHANGED <<ownVars, sample, driver, Amount, nResume, nAdvance, nTrue, advRet, ub>>
    /\ UNCHANGED fadeVars

\* return 0; the generator goes out of scope
MainGenReturn ==
    /\ ~ub
    /\ driver = "main"
    /\ sample \in GeneratorPrograms
    /\ mainPc = 4
    /\ Destructor
    /\ UNCHANGED <<sample, driver, Amount, Value, out, yielded, nResume,
                   nAdvance, nTrue, advRet, nRead, nReadTotal, lastRead, nCopy, ev>>
    /\ UNCHANGED fadeVars

\* the free driver calls operator bool
DrvAdvance ==
    /\ ~ub
    /\ driver = "free"
    /\ mainPc = 2
    /\ Advance(2, 2)
    /\ UNCHANGED fadeVars

\* the free driver calls operator()
DrvRead ==
    /\ ~ub
    /\ driver = "free"
    /\ mainPc = 2
    /\ nRead < MaxReads
    /\ IF co.status = "destroyed"
       THEN /\ ub' = TRUE
            /\ UNCHANGED <<co, Value, out, yielded, lastRead, ev>>
       ELSE LET r == OperatorCall(sample, Amount, co, Value, out, yielded, ev)
            IN  /\ co' = r.co
                /\ Value' = r.Value
                /\ out' = r.out
                /\ yielded' = r.yielded
                /\ lastRead' = r.ret
                /\ ev' = r.ev
                /\ ub' = ub
    /\ nRead' = nRead + 1
    /\ nReadTotal' = nReadTotal + 1
    /\ UNCHANGED <<ownVars, sample, driver, Amount, mainPc, nResume, nAdvance, nTrue,
                   advRet>>
    /\ UNCHANGED fadeVars

\* the free driver lets the generator go out of scope
DrvDestroy ==
    /\ ~ub
    /\ driver = "free"
    /\ mainPc = 2
    /\ Destructor
    /\ UNCHANGED <<sample, driver, Amount, Value, out, yielded, nResume,
                   nAdvance, nTrue, advRet, nRead, nReadTotal, lastRead, nCopy, ev>>
    /\ UNCHANGED fadeVars

\* the free driver copies the generator object: the implicitly declared copy
\* constructor copies the Handle, so one more object holds the same frame
DrvCopy ==
    /\ ~ub
    /\ driver = "free"
    /\ mainPc = 2
    /\ nCopy < MaxCopies
    /\ owners' = CopyGenerator(owners)
    /\ nCopy' = nCopy + 1
    /\ UNCHANGED <<sample, driver, Amount, mainPc, co, Value, out, yielded,
                   nResume, nAdvance, nTrue, advRet, nRead, nReadTotal,
                   lastRead, nDestroy, ub, ev>>
    /\ UNCHANGED fadeVars

---------------------------------------------------------------------------
(* The fade-out sample's driver: the engine calls CoroFadeOut once and    *)
(* then ticks the registered callbacks.  mainPc: 1 before the call, 2     *)
(* after it.                                                              *)

\* CoroFadeOut();
FadeInvoke ==
    /\ ~ub
    /\ sample \in EnginePrograms
    /\ mainPc = 1
    /\ CameraManager' = IF GWorld THEN GetPlayerCameraManager(CameraValid)
                        ELSE "unset"
    /\ IF await_ready(initial_suspend(sample))
       THEN LET es == ev \o << Ev("call", "") >>
                         \o AwaitEvents(initial_suspend(sample))
                r == IF sample \in FloatSamples
                     THEN CoroFadeOutFloat(GWorld, CameraValid, Delay, fades,
                                           TimeRemaining, tickers, es)
                     ELSE IF sample \in ReadmeSamples
                     THEN CoroFadeOutReadme(GWorld, CameraValid, Delay, fades,
                                            TimeRemaining, tickers, es)
                     ELSE CoroFadeOut(GWorld, CameraValid, Delay, fades,
                                      TimeRemaining, tickers, es)
            IN  /\ co' = r.co
                /\ fades' = r.fades
                /\ TimeRemaining' = r.TimeRemaining
                /\ tickers' = r.tickers
                /\ ev' = r.ev
       ELSE /\ co' = NewFrame
            /\ ev' = Append(ev, Ev("call", ""))
                         \o AwaitEvents(initial_suspend(sample))
            /\ UNCHANGED <<fades, TimeRemaining, tickers>>
    /\ mainPc' = 2
    /\ UNCHANGED <<ownVars, sample, driver, Amount, Value, out, yielded,
                   nResume, nAdvance, nTrue, advRet, nRead, nReadTotal,
                   lastRead, GWorld, CameraValid, Delay, invalidCalls,
                   elapsed, nTicks, lastDelta, touched, ub>>

\* a lambda that clears the task's TickerHandle once the resume is back
TickerLambda_resetAfterResume ==
    << [op |-> "subtract", field |-> "TimeRemaining", guarded |-> FALSE],
       [op |-> "test", field |-> "TimeRemaining", guarded |-> FALSE],
       [op |-> "RemoveTicker", field |-> "TickerHandle", guarded |-> TRUE],
       [op |-> "resume", field |-> "Handle", guarded |-> TRUE],
       [op |-> "reset", field |-> "TickerHandle", guarded |-> TRUE],
       [op |-> "return", field |-> "none", guarded |-> FALSE] >>

\* The statements of the lambda await_suspend registers, in order, each
\* with the field of the captured task (this) it reads or writes; guarded:
\* the statement is inside the if (TimeRemaining <= 0.f) block.
\*   TimeRemaining -= DeltaTime;
\*   if (TimeRemaining <= 0.f)
\*   {
\*       FTSTicker::GetCoreTicker().RemoveTicker(TickerHandle);
\*       Handle.resume();
\*   }
\*   return true;
TickerLambda ==
    << [op |-> "subtract", field |-> "TimeRemaining", guarded |-> FALSE],
       [op |-> "test", field |-> "TimeRemaining", guarded |-> FALSE],
       [op |-> "RemoveTicker", field |-> "TickerHandle", guarded |-> TRUE],
       [op |-> "resume", field |-> "Handle", guarded |-> TRUE],
       [op |-> "return", field |-> "none", guarded |-> FALSE] >>

\* [this]: the task the registered lambda has captured by pointer is the
\* one whose await_suspend registered it, the latest that suspended the
\* body; tasks are numbered in the order of their suspensions.
CapturedTask ==
    Cardinality({k \in DOMAIN ev :
                    ev[k] = Ev("await_suspend", "WaitSecondsTask")})

\* the statement leaves a record: it is executed and uses a field
Touches(a) == a.run /\ a.field # "none"

\* The accesses one run of the lambda L makes to the fields of task, in
\* order.  at: the number of protocol steps taken when the access is made;
\* `before` steps were taken when the lambda was entered, RemoveTicker is
\* one more, and `after` were taken when Handle.resume() came back.
LambdaAccesses(L, expired, task, before, after) ==
    LET resumeAt == CHOOSE k \in DOMAIN L : L[k].op = "resume"
        removeAt == CHOOSE k \in DOMAIN L : L[k].op = "RemoveTicker"
        all == [k \in DOMAIN L |->
                   [field |-> L[k].field,
                    task |-> task,
                    at |-> IF expired /\ k > resumeAt THEN after
                           ELSE IF expired /\ k > removeAt THEN before + 1
                           ELSE before,
                    run |-> expired \/ ~L[k].guarded]]
    IN  SelectSeq(all, Touches)

\* The outcomes of a call of SetManualCameraFade on an invalid camera
\* manager (it ends the process or not) that are open in the current
\* state: only a body that does not test IsValid can make such a call, and
\* only once the camera manager is no longer valid.
Crashes ==
    IF sample \in FloatSamples \cup ReadmeSamples /\ ~CameraValid
    THEN BOOLEAN
    ELSE {FALSE}

\* The ticker calls the registered callback with DeltaTime: the lambda of
\* WaitSecondsTask::await_suspend.  Handle.resume() on a frame that is not
\* suspended is undefined.  crash is the outcome of a call on an invalid
\* camera manager, should the resumed body make one; stale is what the
\* engine answers when the README's body asks for a camera manager that
\* has stopped being valid.
Tick(DeltaTime, crash) ==
    /\ ~ub
    /\ sample \in EnginePrograms
    /\ tickers > 0
    /\ lastDelta' = DeltaTime
    /\ IF Expired(FloatSub(TimeRemaining, DeltaTime))
       THEN /\ nResume' = nResume + 1
            /\ elapsed' = 0
            /\ nTicks' = 0
            /\ IF co.status = "suspended"
               THEN \E stale \in (IF /\ sample \in ReadmeSamples
                                     /\ GWorld
                                     /\ ~CameraValid
                                     /\ CameraManager = "object"
                                  THEN BOOLEAN ELSE {FALSE}) :
                    LET es == ev \o << Ev("RemoveTicker", ""),
                                       Ev("resume", ""),
                                       Ev("await_resume", "WaitSecondsTask") >>
                        r == IF sample \in FloatSamples
                             THEN FadeLoopFloat(FloatAdd(co.i, TenthF),
                                                CameraValid, crash, Delay,
                                                fades,
                                                FloatSub(TimeRemaining,
                                                         DeltaTime),
                                                RemoveTicker(tickers),
                                                invalidCalls, es)
                             ELSE IF sample \in ReadmeSamples
                             THEN FadeLoopReadme(co.i + FadeStep, GWorld,
                                                 CameraManager, CameraValid,
                                                 stale, crash, Delay, fades,
                                                 FloatSub(TimeRemaining,
                                                          DeltaTime),
                                                 RemoveTicker(tickers),
                                                 invalidCalls, es)
                             ELSE FadeLoop(co.i + FadeStep, CameraManager,
                                           CameraValid, Delay, fades,
                                           FloatSub(TimeRemaining, DeltaTime),
                                           RemoveTicker(tickers), es)
                    IN  /\ co' = r.co
                        /\ fades' = r.fades
                        /\ TimeRemaining' = r.TimeRemaining
                        /\ tickers' = r.tickers
                        /\ invalidCalls' = r.invalidCalls
                        /\ ev' = r.ev
                        /\ ub' = r.ub
                        /\ CameraManager' = IF sample \in ReadmeSamples
                                            THEN r.CameraManager
                                            ELSE CameraManager
                        /\ touched' = LambdaAccesses(TickerLambda, TRUE,
                                                     CapturedTask, Len(ev),
                                                     Len(r.ev))
               ELSE /\ ub' = TRUE
                    /\ tickers' = RemoveTicker(tickers)
                    /\ TimeRemaining' = FloatSub(TimeRemaining, DeltaTime)
                    /\ touched' = LambdaAccesses(TickerLambda, TRUE,
                                                 CapturedTask, Len(ev),
                                                 Len(ev))
                    /\ UNCHANGED <<co, fades, invalidCalls, ev, CameraManager>>
       ELSE /\ TimeRemaining' = FloatSub(TimeRemaining, DeltaTime)
            /\ touched' = LambdaAccesses(TickerLambda, FALSE, CapturedTask,
                                         Len(ev), Len(ev))
            /\ elapsed' = elapsed + DeltaTime
            /\ nTicks' = nTicks + 1
            /\ UNCHANGED <<co, fades, tickers, invalidCalls, ev, nResume, ub,
                           CameraManager>>
    /\ UNCHANGED <<ownVars, sample, driver, Amount, mainPc, Value, out,
                   yielded, nAdvance, nTrue, advRet, nRead, nReadTotal,
                   lastRead, GWorld, CameraValid, Delay>>

\* between two ticks the camera manager stops being valid (the wait can
\* tick between worlds)
CameraInvalidate ==
    /\ ~ub
    /\ sample \in EnginePrograms
    /\ co.status = "suspended"
    /\ CameraValid
    /\ CameraValid' = FALSE
    /\ UNCHANGED <<ownVars, sample, driver, Amount, mainPc, co, Value, out,
                   yielded, nResume, nAdvance, nTrue, advRet, nRead,
                   nReadTotal, lastRead, ev, GWorld, CameraManager, Delay,
                   TimeRemaining, tickers, fades, invalidCalls, elapsed,
                   nTicks, lastDelta, touched, ub>>

Next ==
    \/ MainInvoke
    \/ MainPrint
    \/ MainResume
    \/ MainReturn
    \/ GenConstruct
    \/ MainWhile
    \/ MainLoopBody
    \/ MainGenReturn
    \/ DrvAdvance
    \/ DrvRead
    \/ DrvDestroy
    \/ DrvCopy
    \/ FadeInvoke
    \/ \E DeltaTime \in DeltaTimes, crash \in Crashes : Tick(DeltaTime, crash)
    \/ CameraInvalidate

Spec == Init /\ [][Next]_vars

---------------------------------------------------------------------------
(* Properties of the await samples *)

\* the body has run past its last statement
Completed(c) == c.status \in {"done", "destroyed"}

\* the generator's frame exists: it is suspended or at its final suspension
Alive(c) == c.status \in {"suspended", "done"}

\* main has executed its return statement
MainExited == mainPc > Len(main(sample))

SimpleOutput ==
    << "CoroTest Before Suspend",
       "CoroTest Resuming",
       "CoroTest After Resume" >>

\* C1: in the simple sample the call of CoroTest prints the pre-suspend line
\* and suspends; the body prints nothing more until main's handle.resume();
\* that one resume prints the post-resume line and the body returns; the
\* output of the whole program is Before Suspend, Resuming, After Resume.
C1_SimpleSuspendOnce ==
    sample = "Simple" =>
        /\ ~ub
        /\ mainPc = 1 => out = << >> /\ co.status = "none"
        /\ mainPc = 2 => out = SubSeq(SimpleOutput, 1, 1) /\ co.status = "suspended"
        /\ mainPc = 3 => out = SubSeq(SimpleOutput, 1, 2) /\ co.status = "suspended"
        /\ mainPc >= 4 => out = SimpleOutput /\ Completed(co) /\ nResume = 1

C1_Witness ==
    sample = "Simple" /\ MainExited /\ Len(out) = 3 /\ nResume = 1

\* the names the suspension markers carry in each two-suspension sample
FirstMarker(s) ==
    CASE s = "Tasks"    -> "Suspended Using Task A"
      [] s = "Awaiters" -> "Suspended Using Awaiter A"
      [] s = "Tasks12"  -> "Suspended Using Task 1"

SecondMarker(s) ==
    CASE s = "Tasks"    -> "Suspended Using Task B"
      [] s = "Awaiters" -> "Suspended Using Awaiter B"
      [] s = "Tasks12"  -> "Suspended Using Task 2"

TwoSuspensionOutput(s) ==
    << "CoroTest Before Suspend",
       FirstMarker(s),
       "CoroTest First Resuming",
       "CoroTest After First Resume",
       SecondMarker(s),
       "CoroTest Second Resuming",
       "CoroTest After Second Resume" >>

\* C2: in the two-suspension samples the call prints the pre-suspend line and
\* the first marker, the first resume prints the after-first-resume line and
\* the second marker, the second resume prints the after-second-resume line;
\* with main's own two lines the output is exactly the seven expected lines.
C2_TwoSuspensionOutput ==
    sample \in {"Tasks", "Awaiters", "Tasks12"} =>
        LET e == TwoSuspensionOutput(sample) IN
        /\ mainPc = 1 => out = << >>
        /\ mainPc = 2 => out = SubSeq(e, 1, 2)
        /\ mainPc = 3 => out = SubSeq(e, 1, 3)
        /\ mainPc = 4 => out = SubSeq(e, 1, 5)
        /\ mainPc = 5 => out = SubSeq(e, 1, 6)
        /\ mainPc >= 6 => out = e

C2_Witness ==
    sample = "Tasks" /\ MainExited /\ Len(out) = 7

\* the suspension points of CoroTest whose awaitable is not ready
NotReadySuspensions(s) ==
    Cardinality({k \in 1..Len(CoroTest(s)) :
                    /\ CoroTest(s)[k].op = "co_await"
                    /\ ~await_ready(CoroTest(s)[k].arg)})

\* C3: a run-immediately coroutine completes on exactly the resume whose
\* number is the number of its not-ready suspension points (one in the simple
\* sample, two in the two-suspension samples): it is suspended after the call
\* and after every earlier resume, and main never resumes once more.
C3_ResumesToCompletion ==
    sample \in AwaitSamples =>
        LET n == NotReadySuspensions(sample) IN
        /\ n = (IF sample = "Simple" THEN 1 ELSE 2)
        /\ ~ub
        /\ nResume <= n
        /\ mainPc > 1 /\ nResume < n => co.status = "suspended"
        /\ mainPc > 1 /\ nResume = n => Completed(co)
        /\ MainExited => nResume = n

C3_Witness ==
    sample = "Tasks12" /\ MainExited /\ nResume = 2 /\ Completed(co)

---------------------------------------------------------------------------
(* Properties of the generator samples *)

\* the k-th Fibonacci number: F(1) = F(2) = 1, F(k) = F(k-1) + F(k-2)
RECURSIVE F(_)
F(k) == IF k <= 2 THEN 1 ELSE F(k - 1) + F(k - 2)

SampleOutput == Shown(<< 1, 1, 2, 3, 5, 8, 13, 21, 34, 55 >>)

\* << F(k), F(k + 1) >>, with 0, which is no Fibonacci number, in the place
\* of a number above 2^31 - 1
RECURSIVE FibonacciPair(_)
FibonacciPair(k) ==
    IF k <= 1 THEN << 1, 1 >>
    ELSE LET p == FibonacciPair(k - 1)
         IN  << p[2],
                IF p[1] = 0 \/ p[2] = 0 \/ p[1] > MaxInt32 - p[2]
                THEN 0
                ELSE p[1] + p[2] >>

\* the latest read returned the k-th Fibonacci number; from F(47) =
\* 2971215073 on the number is above 2^31 - 1 and no int is equal to it
ReadFibonacci(k) ==
    /\ FibonacciPair(k)[1] > 0
    /\ lastRead = Determinate(FibonacciPair(k)[1])

\* what C4 says of a run of FibonacciGenerator(Amount)
FibonacciValues ==
    /\ nAdvance \in 1..Amount => advRet = "true" /\ nTrue = nAdvance
    /\ advRet = "true" /\ nRead > 0 => ReadFibonacci(nTrue)
    /\ Amount = SampleAmount =>
          /\ nAdvance = SampleAmount + 1 => advRet = "false"
          /\ driver = "main" => out = SubSeq(SampleOutput, 1, nReadTotal)
          /\ driver = "main" /\ mainPc >= 4 => out = SampleOutput

\* C4 as claimed: FibonacciGenerator(N), N >= 1: each of the first N calls
\* of operator bool returns true, and operator() after the k-th of them
\* returns F(k), for every k in 1..N; for N = 10 the values read are
\* 1 1 2 3 5 8 13 21 34 55 and the eleventh call of operator bool returns
\* false.
C4_FibonacciValues ==
    sample = "Fibonacci" /\ Amount >= 1 /\ ~ub => FibonacciValues

\* C4, for the Amounts whose numbers an int holds: FibonacciGenerator(N),
\* 1 <= N <= 46: each of the first N calls of operator bool returns true,
\* and operator() after the k-th of them returns F(k), for every k in 1..N;
\* for N = 10 the values read are 1 1 2 3 5 8 13 21 34 55 and the eleventh
\* call of operator bool returns false.
C4_FibonacciValuesInRange ==
    sample = "Fibonacci" /\ Amount \in 1..46 /\ ~ub => FibonacciValues

\* FibonacciGenerator(46) read to its end: the last number read is F(46),
\* the largest an int holds
C4_FibonacciValuesInRange_Witness ==
    /\ sample = "Fibonacci" /\ Amount = 46 /\ driver = "main"
    /\ mainPc = 5 /\ nTrue = 46 /\ nReadTotal = 46 /\ nAdvance = 47
    /\ lastRead = Determinate(1836311903)
    /\ out[SampleAmount] = Determinate(55)

\* C5: FibonacciGenerator(N), N <= 0: the first call of operator bool returns
\* false, no co_yield is executed, the main loop reads no value, and the slot
\* is never written.
C5_NonPositiveAmount ==
    /\ [](sample = "Fibonacci" /\ Amount <= 0 =>
            /\ yielded = << >>
            /\ nTrue = 0
            /\ nAdvance >= 1 /\ ~ub => advRet = "false"
            /\ driver = "main" => nReadTotal = 0 /\ out = << >>)
    /\ [][sample = "Fibonacci" /\ Amount <= 0 => Value' = Value]_vars

C5_Witness ==
    /\ sample = "Fibonacci" /\ Amount = 0 /\ driver = "main" /\ mainPc = 5
    /\ nAdvance = 1 /\ advRet = "false" /\ yielded = << >>

\* C6: at every point of a run the number of operator bool calls that
\* returned true is the number of co_yield the body has executed, and the
\* latest call returned false exactly when the body has completed: the one
\* false call is the call during which the body runs past its last statement.
C6_RoundTripCount ==
    sample \in GeneratorSamples /\ ~ub =>
        /\ nTrue = Len(yielded)
        /\ mainPc \in 2..4 /\ Alive(co) =>
              /\ advRet = "false" <=> done(co)
              /\ done(co) => nAdvance = nTrue + 1
              /\ ~done(co) => nAdvance = nTrue

C6_Witness ==
    /\ sample = "Fibonacci" /\ Amount = 5 /\ driver = "free" /\ done(co)
    /\ Len(yielded) = 5 /\ nTrue = 5 /\ nAdvance = 6 /\ advRet = "false"

\* C7: for the body that yields 1, 2, 3 operator bool returns true three
\* times, operator() after the k-th of them returns k, and the fourth call of
\* operator bool returns false.
C7_CountToThree ==
    sample = "CountToThree" /\ ~ub =>
        /\ nAdvance \in 1..3 => advRet = "true" /\ nTrue = nAdvance
        /\ nAdvance = 4 => advRet = "false" /\ nTrue = 3
        /\ advRet = "true" /\ nRead > 0 => lastRead = Determinate(nTrue)
        /\ driver = "main" /\ mainPc >= 4 => out = Shown(<< 1, 2, 3 >>)

C7_Witness ==
    /\ sample = "CountToThree" /\ driver = "main" /\ mainPc = 5
    /\ nAdvance = 4 /\ nReadTotal = 3 /\ Len(out) = 3

\* the frame is suspended at a co_yield
AtYield(s, c) ==
    /\ c.status = "suspended"
    /\ IF s = "Fibonacci" THEN c.pc \in {2, 3}
       ELSE c.pc > 1 /\ Body(s)[c.pc - 1].op = "co_yield"

\* the operand of the co_yield the frame is suspended at
YieldOperandAt(s, c) ==
    IF s = "Fibonacci" THEN (IF c.pc = 2 THEN 1 ELSE c.n2)
    ELSE Body(s)[c.pc - 1].arg

\* C8: every call of operator bool resumes the body exactly once; it returns
\* false if and only if the body is finished after that resume; when it
\* returns true the body is suspended at a co_yield and the slot holds that
\* co_yield's operand.
C8_AdvanceResult ==
    sample \in GeneratorSamples /\ ~ub =>
        /\ nResume = nAdvance
        /\ mainPc \in 2..4 /\ Alive(co) /\ nAdvance >= 1 =>
              /\ advRet = "false" <=> done(co)
              /\ advRet = "true" =>
                    AtYield(sample, co) /\ Value = Determinate(YieldOperandAt(sample, co))

C8_Witness ==
    /\ sample = "Fibonacci" /\ advRet = "true" /\ nAdvance = 5
    /\ co.status = "suspended" /\ co.pc = 3 /\ Value = Determinate(5)

\* C9: operator() called after a call of operator bool that returned true
\* returns the operand of the latest co_yield the body executed.
C9_ReadLatestYield ==
    sample \in GeneratorSamples /\ ~ub /\ advRet = "true" /\ nRead > 0 =>
        /\ Len(yielded) > 0
        /\ lastRead = Determinate(yielded[Len(yielded)])

C9_Witness ==
    /\ advRet = "true" /\ nRead > 0 /\ Len(yielded) >= 3
    /\ yielded[Len(yielded)] # yielded[Len(yielded) - 1]
    /\ lastRead = Determinate(yielded[Len(yielded)])

\* the yields a whole run of the body executes
TotalYields ==
    IF sample = "Fibonacci" THEN (IF Amount > 0 THEN Amount ELSE 0) ELSE 3

\* C10: a call of operator() leaves the frame (suspension point, finished
\* flag) as it is and resumes nothing, so whatever operator() calls lie
\* between the operator bool calls, the body completes after as many true
\* results as it has co_yields.
C10_ReadDoesNotDrive ==
    /\ [][nReadTotal' = nReadTotal + 1 =>
            co' = co /\ nResume' = nResume /\ yielded' = yielded]_vars
    /\ [](sample \in GeneratorSamples /\ ~ub /\ done(co) => nTrue = TotalYields)

C10_Witness ==
    /\ sample = "Fibonacci" /\ driver = "free" /\ Amount = 3 /\ done(co)
    /\ nTrue = 3 /\ nReadTotal >= 5

\* C11: the generator keeps one produced value: once the body has yielded,
\* the slot holds the operand of the latest co_yield only, so after two calls
\* of operator bool that returned true with no operator() between them the
\* next operator() returns the second co_yield's operand and the first one's
\* is gone.
C11_SingleSlotOverwrite ==
    sample \in GeneratorSamples /\ ~ub /\ Alive(co) =>
        /\ Len(yielded) > 0 => Value = Determinate(yielded[Len(yielded)])
        /\ nRead > 0 => lastRead = Value
        /\ nRead > 0 /\ nReadTotal = nRead /\ nTrue >= 2 =>
              lastRead = Determinate(yielded[nTrue])

C11_Witness ==
    /\ sample = "CountToThree" /\ driver = "free" /\ Alive(co)
    /\ nTrue = 2 /\ advRet = "true" /\ nReadTotal = 1 /\ nRead = 1
    /\ lastRead = Determinate(2) /\ yielded = << 1, 2 >>

\* C12: a co_yield stores its operand and suspends: a step executes at most
\* one co_yield, only a call of operator bool executes one, and it leaves the
\* body suspended with that operand in the slot; the body never runs ahead
\* of the driver.
C12_YieldAlwaysSuspends ==
    /\ [][/\ Len(yielded') <= Len(yielded) + 1
          /\ Len(yielded') = Len(yielded) + 1 =>
                /\ nAdvance' = nAdvance + 1
                /\ co'.status = "suspended"
                /\ Value' = Determinate(yielded'[Len(yielded')])]_vars
    /\ [](Len(yielded) <= nAdvance)

C12_Witness ==
    /\ sample = "Fibonacci" /\ Amount >= 4 /\ Len(yielded) = 4
    /\ nAdvance = 4 /\ co.status = "suspended" /\ Value = Determinate(3)

\* C13: making a generator runs no statement of the body: until the first
\* call of operator bool the frame is at its start, nothing was yielded or
\* printed; a generator destroyed before any call of operator bool has run no
\* body code and its frame is released, with no fault.
C13_SuspendFirst ==
    sample \in GeneratorSamples /\ nAdvance = 0 /\ nCopy = 0 =>
        /\ ~ub
        /\ yielded = << >>
        /\ out = << >>
        /\ nResume = 0
        /\ mainPc >= 2 => co.pc = 1
        /\ mainPc = 2 => co.status = "suspended"
        /\ mainPc = 5 => co.status = "destroyed"

C13_Witness ==
    /\ sample = "Fibonacci" /\ Amount = 3 /\ driver = "free" /\ mainPc = 5
    /\ nAdvance = 0 /\ co.status = "destroyed" /\ ~ub

\* C14: at every point at most one CoroGenerator object holds the handle of
\* a computation, and the frame is destroyed exactly once: never twice
\* while objects go out of scope, and once when the last one is gone.
C14_ExclusiveOwnership ==
    sample \in GeneratorSamples =>
        /\ owners <= 1
        /\ nDestroy <= 1
        /\ mainPc = 5 => nDestroy = 1

\* C18: the generator's frame survives the end of its body: the advance
\* that runs the body to its end finds done() true on a frame that still
\* exists, every advance of a suspended frame queries done() on a frame
\* that has not been released, and the frame is released exactly when a
\* destructor has called destroy().
C18_RetainUntilDestroyed ==
    /\ [](sample \in GeneratorSamples =>
            /\ co.status = "destroyed" <=> nDestroy >= 1
            /\ advRet = "false" /\ nDestroy = 0 => done(co))
    /\ [][(/\ sample \in GeneratorSamples
            /\ nAdvance' = nAdvance + 1
            /\ co.status = "suspended")
           => (/\ Alive(co')
               /\ ~ub'
               /\ advRet' = "false" <=> done(co'))]_vars
C18_Witness ==
    /\ sample = "Fibonacci" /\ Amount = 2 /\ driver = "main" /\ mainPc = 4
    /\ advRet = "false" /\ done(co) /\ nTrue = 2 /\ nDestroy = 0 /\ ~ub

\* C19: an exception that leaves a coroutine body ends at
\* unhandled_exception and never reaches the code that called resume or
\* advance; the coroutine then counts as finished: the await program's frame
\* is released without undefined behaviour, and the advance of a generator
\* in which the exception was raised returns false.
C19_FaultContained ==
    /\ [](/\ co.end # "rethrown"
          /\ \A k \in 1..Len(ev) : ev[k].e # "throw"
          /\ co.end = "exception" => Completed(co)
          /\ co.end = "exception" /\ sample \in AwaitPrograms =>
                /\ co.status = "destroyed"
                /\ ~ub
                /\ out = << "CoroTest Before Suspend", "CoroTest Resuming" >>)
    /\ [][(/\ sample \in GeneratorPrograms
            /\ co.end = "none"
            /\ co'.end = "exception")
           => (/\ advRet' = "false"
               /\ done(co')
               /\ ~ub'
               /\ nAdvance' = nTrue' + 1
               /\ Value' = Value)]_vars
C19_Witness ==
    /\ sample = "YieldThrow" /\ driver = "main" /\ mainPc = 4
    /\ co.end = "exception" /\ done(co) /\ advRet = "false"
    /\ nTrue = 1 /\ yielded = << 1 >> /\ out = Shown(<< 1 >>) /\ ~ub

\* C20: a generator body that ends by co_return and one that ends by
\* falling off its last statement look the same to the driver: the advance
\* that ends the body returns false on a frame that is done, every advance
\* before it returned true, and the slot, the yields and the output are
\* left as they were; FibonacciGenerator's early co_return leaves what its
\* loop would leave by falling off the end without a pass.
C20_EndEquivalence ==
    /\ [][(/\ sample \in GeneratorSamples
            /\ co.end = "none"
            /\ co'.end \in {"co_return", "fall"})
           => (/\ advRet' = "false"
               /\ done(co')
               /\ ~ub'
               /\ nAdvance' = nTrue' + 1
               /\ Value' = Value
               /\ yielded' = yielded
               /\ out' = out)]_vars
    /\ [](sample = "Fibonacci" /\ co.end = "co_return" /\ Alive(co) =>
            LET f == FibonacciLoop(Amount, 1, 1, 1, Value, << >>, << >>, << >>)
            IN  /\ f.co.end = "fall"
                /\ f.co.status = co.status
                /\ f.Value = Value
                /\ f.yielded = yielded
                /\ f.out = out)
C20_Witness ==
    /\ sample = "Fibonacci" /\ Amount = 0 /\ driver = "free"
    /\ co.end = "co_return" /\ done(co) /\ advRet = "false"
    /\ nAdvance = 1 /\ nTrue = 0 /\ nReadTotal = 1 /\ ~ub
    /\ Value = Indeterminate /\ lastRead = Value

---------------------------------------------------------------------------
(* Properties of the suspension protocol and of the completion policies *)

\* the fade levels of a run in which the camera manager stays valid
AllFades ==
    [k \in 1..(FadeMax \div FadeStep + 1) |-> FadeLevel((k - 1) * FadeStep)]

\* C15: when await_ready answers true the suspension is skipped: the next
\* step of the protocol is await_resume of the same awaitable, with no
\* await_suspend and no return to the driver in between.  A fade-out whose
\* WaitSecondsTask is made with a time <= 0 never registers a ticker and
\* never suspends: it runs to its end inside the call of CoroFadeOut.
C15_ReadinessSkip ==
    /\ \A k \in 1..Len(ev) :
          ev[k].e = "ready" =>
              /\ k < Len(ev)
              /\ ev[k + 1] = Ev("await_resume", ev[k].a)
    /\ sample \in IntegerSamples /\ Delay <= 0 =>
          /\ ~ub
          /\ tickers = 0
          /\ nResume = 0
          /\ \A k \in 1..Len(ev) : ev[k].e \notin {"not_ready", "await_suspend"}
          /\ mainPc = 2 =>
                /\ co.status = "destroyed"
                /\ co.end = "fall"
                /\ GWorld /\ CameraValid => fades = AllFades
C15_Witness ==
    /\ sample = "FadeOut" /\ Delay = 0 /\ GWorld /\ CameraValid /\ mainPc = 2
    /\ co.status = "destroyed" /\ fades = AllFades /\ tickers = 0
    /\ \E k \in 1..Len(ev) : ev[k] = Ev("ready", "WaitSecondsTask")

\* the awaitable of the latest await_suspend before position k of ev
RECURSIVE LastSuspendedAt(_)
LastSuspendedAt(k) ==
    IF k <= 1 THEN "none"
    ELSE IF ev[k - 1].e = "await_suspend"
         THEN ev[k - 1].a
         ELSE LastSuspendedAt(k - 1)

\* C16: at every co_await, await_ready is asked first; if it answers false
\* await_suspend of the same awaitable runs next and only then does control
\* return to the driver; the resume that follows starts with await_resume
\* of that awaitable; body statements run only after an await_resume or
\* another body statement, and driver statements only after a return, so no
\* body statement runs between await_suspend and the next resume.  In the
\* tasks sample the line await_suspend prints is the last one printed when
\* the call of CoroTest returns.
C16_ProtocolOrder ==
    /\ \A k \in 1..Len(ev) :
          /\ ev[k].e = "not_ready" =>
                k < Len(ev) /\ ev[k + 1] = Ev("await_suspend", ev[k].a)
          /\ ev[k].e = "await_suspend" =>
                /\ k > 1 /\ ev[k - 1] = Ev("not_ready", ev[k].a)
                /\ k < Len(ev) /\ ev[k + 1].e = "return"
          /\ ev[k].e = "resume" =>
                /\ k > 1 /\ ev[k - 1].e \in {"return", "driver", "RemoveTicker"}
                /\ k < Len(ev)
                /\ ev[k + 1] = Ev("await_resume", LastSuspendedAt(k))
          /\ ev[k].e = "await_resume" =>
                k > 1 /\ ev[k - 1].e \in {"resume", "ready"}
          /\ ev[k].e = "body" =>
                k > 1 /\ ev[k - 1].e \in {"await_resume", "body"}
          /\ ev[k].e = "driver" =>
                k > 1 /\ ev[k - 1].e \in {"return", "driver"}
    /\ sample = "Tasks" /\ mainPc = 2 =>
          out = << "CoroTest Before Suspend", "Suspended Using Task A" >>
    /\ sample \in IntegerSamples /\ co.status = "suspended" => tickers = 1
C16_Witness ==
    /\ sample = "Tasks" /\ mainPc = 4 /\ Len(ev) = 14
    /\ ev[5] = Ev("not_ready", "CoroTaskA")
    /\ ev[6] = Ev("await_suspend", "CoroTaskA")
    /\ ev[7] = Ev("return", "")
    /\ ev[9] = Ev("resume", "")
    /\ ev[10] = Ev("await_resume", "CoroTaskA")
    /\ ev[11] = Ev("body", "CoroTest After First Resume")
    /\ ev[13] = Ev("await_suspend", "CoroTaskB")

\* C17: in the simple, tasks and fade-out samples (every CoroFadeOut) the
\* frame is released in the step in which the body ends, and from then on
\* the handle is not used: no resume follows (main has none left, no ticker
\* is registered), done() is never asked and destroy() is never called.
\* No run uses the handle against its contract: the only undefined step of
\* these samples is a fade-out's call on a camera manager that is no longer
\* valid, which ends the run with the body unfinished.
C17_AutoRelease ==
    /\ [](sample \in AwaitSamples \cup EnginePrograms =>
            /\ ub => sample \in EnginePrograms /\ co.status = "crashed"
            /\ nDestroy = 0
            /\ nAdvance = 0
            /\ co.end # "none" <=> co.status = "destroyed"
            /\ co.status = "destroyed" =>
                  /\ tickers = 0
                  /\ \A k \in mainPc..Len(main(sample)) :
                        main(sample)[k].op # "resume")
    /\ [][(sample \in AwaitSamples \cup EnginePrograms
             /\ co.status = "destroyed")
           => (nResume' = nResume /\ co' = co)]_vars
C17_Witness ==
    /\ sample = "FadeOut" /\ Delay = TenthF /\ GWorld /\ mainPc = 2
    /\ co.status = "destroyed" /\ co.end = "fall" /\ tickers = 0
    /\ nResume = FadeMax \div FadeStep + 1 /\ ~ub

---------------------------------------------------------------------------
(* Properties of the fade-out samples *)

\* number of times the protocol step e has been taken
CountEv(e) == Cardinality({k \in DOMAIN ev : ev[k].e = e})

\* number of suspensions at a WaitSecondsTask that was not ready
WaitSuspensions ==
    Cardinality({k \in DOMAIN ev :
                    ev[k] = Ev("await_suspend", "WaitSecondsTask")})

\* C21: Timer-driven resumption.  Every suspension at a WaitSecondsTask
\* that is not ready registers exactly one ticker callback; that callback
\* removes itself once and calls resume() once, the removal first: at any
\* time the suspensions are the removals plus the one callback still
\* registered, every removal is followed at once by a resume and every
\* resume follows a removal, a callback is registered exactly while the
\* body is suspended, and none is left when the body has completed.
C21_TimerResumption ==
    /\ [](sample \in EnginePrograms =>
            /\ tickers \in {0, 1}
            /\ WaitSuspensions = CountEv("RemoveTicker") + tickers
            /\ CountEv("RemoveTicker") = nResume
            /\ CountEv("resume") = nResume
            /\ tickers = 1 <=> co.status = "suspended"
            /\ \A k \in DOMAIN ev :
                  /\ ev[k].e = "RemoveTicker" =>
                        /\ k < Len(ev)
                        /\ ev[k + 1].e = "resume"
                        /\ \E j \in 1..(k - 1) :
                              /\ ev[j].e = "await_suspend"
                              /\ \A i \in (j + 1)..(k - 1) :
                                    ev[i].e \notin {"RemoveTicker", "resume"}
                  /\ ev[k].e = "resume" =>
                        k > 1 /\ ev[k - 1].e = "RemoveTicker")
    /\ [][(sample \in EnginePrograms /\ nResume' = nResume + 1)
          => (/\ tickers = 1
              /\ co.status = "suspended"
              /\ WaitSuspensions' = WaitSuspensions + tickers')]_vars

C21_TimerResumption_Witness ==
    /\ sample = "FadeOutFloat" /\ Delay = TenthF /\ GWorld
    /\ co.status = "destroyed" /\ tickers = 0
    /\ WaitSuspensions = 10 /\ CountEv("RemoveTicker") = 10 /\ nResume = 10

\* the body is executing after step k of the protocol: the latest call or
\* resume has not yet returned to its caller
InFlight(k) ==
    \E j \in 1..k :
        /\ ev[j].e \in {"call", "resume"}
        /\ \A i \in (j + 1)..k : ev[i].e # "return"

\* C22: No reentrant resume.  In every interleaving of ticks and of the
\* engine's other steps with the fade-out coroutine, resume() is called only
\* on a frame that is suspended at that moment: never while the call or an
\* earlier resume is still executing the body, and never once the body has
\* completed.
C22_NoReentrantResume ==
    /\ [](sample \in EnginePrograms =>
            /\ \A k \in DOMAIN ev :
                  ev[k].e = "resume" => k > 1 /\ ~InFlight(k - 1)
            /\ ub => co.status = "crashed"
            /\ Completed(co) => tickers = 0)
    /\ [][(sample \in EnginePrograms /\ nResume' = nResume + 1)
          => (/\ co.status = "suspended"
              /\ ~InFlight(Len(ev))
              /\ ~Completed(co))]_vars
    /\ [][(sample \in EnginePrograms /\ Completed(co))
          => (nResume' = nResume /\ co' = co)]_vars

C22_NoReentrantResume_Witness ==
    /\ sample = "FadeOut" /\ Delay = TenthF /\ GWorld
    /\ co.status = "suspended" /\ nResume = 3 /\ ~CameraValid
    /\ ~InFlight(Len(ev)) /\ CountEv("resume") = 3

---------------------------------------------------------------------------
(* Properties of the console samples' control transfer *)

\* the console samples: the await samples and the generator samples run by
\* their main
ConsoleRun == sample \in AwaitSamples \cup GeneratorSamples /\ driver = "main"

\* everything the sample prints, in order
ConsoleOutput(s, A) ==
    IF s = "Simple" THEN SimpleOutput
    ELSE IF s = "CountToThree" THEN Shown(<< 1, 2, 3 >>)
    ELSE IF s = "Fibonacci"
    THEN [k \in 1..(IF A > 0 THEN A ELSE 0) |-> Determinate(F(k))]
    ELSE TwoSuspensionOutput(s)

IsPrefix(p, s) == Len(p) <= Len(s) /\ p = SubSeq(s, 1, Len(p))

\* the steps of the protocol log taken by the driver; the others are taken
\* by the body
DriverSteps == {"call", "resume", "driver"}

\* C23: Deterministic strict alternation.  In the console samples exactly
\* one of driver and body executes at any time: a driver step (a call, a
\* resume, a statement of main) is taken only when the body is not
\* executing, and every step of the body is taken between a call or resume
\* and the return that ends it, so the body's statements up to its next
\* suspension all come before the driver's next statement and the driver's
\* statements between two resumes all come before the body continues.  The
\* output is therefore fixed: at any time it is a prefix of the one sequence
\* of the sample, and it is the whole of it when main has finished.
C23_StrictAlternation ==
    /\ [](ConsoleRun =>
            /\ ~ub
            /\ \A k \in DOMAIN ev :
                  IF ev[k].e \in DriverSteps
                  THEN ~InFlight(k - 1)
                  ELSE InFlight(k - 1)
            /\ ~InFlight(Len(ev))
            /\ IsPrefix(out, ConsoleOutput(sample, Amount))
            /\ (IF sample \in AwaitSamples THEN MainExited ELSE mainPc >= 4)
                  => out = ConsoleOutput(sample, Amount))
    /\ [][ConsoleRun => IsPrefix(out, out')]_vars

C23_StrictAlternation_Witness ==
    /\ ConsoleRun /\ sample = "Tasks12" /\ MainExited
    /\ out = ConsoleOutput(sample, Amount)
    /\ \E i, j, k \in DOMAIN ev :
          /\ i < j /\ j < k
          /\ ev[i].e = "body" /\ ev[j].e = "driver" /\ ev[k].e = "body"

\* the step runs the registered callback of a suspended fade-out whose wait
\* has a positive time
CallbackRuns ==
    /\ sample \in EnginePrograms
    /\ Delay > 0
    /\ co.status = "suspended"
    /\ (nTicks' # nTicks \/ nResume' # nResume)

\* what one float subtraction can lose while the wait lasts: half the
\* distance between neighbouring floats at the magnitude of the wait's time
HalfUlp == Ulp(Delay) \div 2

\* C24 as stated: Wait threshold.  After suspending at WaitSecondsTask(d),
\* d > 0, the coroutine is not resumed while the sum of the DeltaTime values
\* delivered since the suspension is less than d, and it is resumed during
\* the first tick at which that sum reaches or exceeds d.
C24_WaitThreshold ==
    [][CallbackRuns
       => (nResume' = nResume + 1 <=> elapsed + lastDelta' >= Delay)]_vars

\* C24, amended: the callback compares TimeRemaining, which is d less the
\* DeltaTime values with every subtraction rounded to a float.  The
\* coroutine stays suspended while TimeRemaining > 0 and is resumed during
\* the first tick that makes TimeRemaining <= 0, not later.  TimeRemaining
\* is d minus the exact sum up to half a unit in the last place of d for
\* each earlier tick, so the resume never comes while the sum is short of d
\* by more than that, and always comes once the sum exceeds d by that much.
C24_WaitThresholdRounded ==
    /\ [](sample \in EnginePrograms /\ co.status = "suspended" =>
            /\ Delay > 0
            /\ TimeRemaining > 0
            /\ Abs(TimeRemaining - (Delay - elapsed)) <= nTicks * HalfUlp)
    /\ [][CallbackRuns
          => (/\ nResume' = nResume + 1 <=> TimeRemaining <= lastDelta'
              /\ nResume' = nResume + 1 =>
                    elapsed + lastDelta' >= Delay - nTicks * HalfUlp
              /\ elapsed + lastDelta' >= Delay + nTicks * HalfUlp =>
                    nResume' = nResume + 1)]_vars

\* two ticks of .03f have left exactly .04f although d minus their sum is
\* more; the fade-out has been resumed before
C24_WaitThresholdRounded_Witness ==
    /\ sample \in EnginePrograms /\ Delay = TenthF
    /\ co.status = "suspended" /\ nResume >= 1
    /\ nTicks = 2 /\ TimeRemaining = FrameTimes[3]
    /\ Delay - elapsed > TimeRemaining

\* C25: Camera validity.  CoroFadeOut calls SetManualCameraFade only on a
\* camera manager that is valid at the time of the call, the calls made
\* after resuming from a wait included.
C25_CameraValidity ==
    sample \in EnginePrograms => invalidCalls = 0

\* the float nearest to k / 10, what the literals .1f, .2f, ... denote:
\* k * 2^30 / 10 is rounded down to a whole number of 2^-30 first, which
\* moves it across no float and no midpoint of two floats
TenthsF(k) ==
    LET N == k * (OneF \div 8)
    IN  F32Round(4 * (N \div 5) + (4 * (N % 5)) \div 5)

\* the steps of the protocol log that call SetManualCameraFade
FadeCalls ==
    {k \in DOMAIN ev : ev[k] = Ev("body", "SetManualCameraFade")}

\* the co_await WaitSecondsTask expressions started between steps i and j
WaitsBetween(i, j) ==
    Cardinality({k \in (i + 1)..(j - 1) :
                    /\ ev[k].e \in {"ready", "not_ready"}
                    /\ ev[k].a = "WaitSecondsTask"})

\* what C26 says of both variants: with a world and a camera manager that
\* stay valid the levels start at 0 and never decrease, two consecutive
\* calls are separated by exactly one wait on WaitSecondsTask(.1f), and the
\* last level set before the coroutine completes is 1.0
FadeProgression ==
    /\ Len(fades) = Cardinality(FadeCalls)
    /\ fades # << >> => fades[1] = 0
    /\ \A k \in 1..(Len(fades) - 1) : fades[k] < fades[k + 1]
    /\ \A i, j \in FadeCalls :
          (i < j /\ \A m \in (i + 1)..(j - 1) : m \notin FadeCalls)
             => WaitsBetween(i, j) = 1
    /\ co.status = "destroyed" => fades[Len(fades)] = OneF

\* the runs C26 is about
FadeRuns ==
    /\ sample \in EnginePrograms
    /\ mainPc = 2
    /\ GWorld
    /\ CameraValid

\* C26 as stated: Fade progression.  FadeProgression holds, and in the
\* integer-stepped variant the levels are exactly 0.0, 0.1, ..., 1.0
\* (eleven calls).
C26_FadeProgression ==
    FadeRuns =>
        /\ FadeProgression
        /\ sample \in IntegerSamples =>
              /\ \A k \in DOMAIN fades : fades[k] = TenthsF(k - 1)
              /\ co.status = "destroyed" => Len(fades) = 11

\* C26, amended: FadeProgression holds, and in the integer-stepped variant
\* there are eleven calls whose levels are the floats (float)Fade * .01f for
\* Fade = 0, 10, ..., 100: 0.0 and 1.0 exactly, the others equal to or one
\* unit in the last place below the floats .1f, .2f, ..., .9f.
C26_FadeProgressionUlp ==
    FadeRuns =>
        /\ FadeProgression
        /\ sample \in IntegerSamples =>
              /\ \A k \in DOMAIN fades :
                    /\ fades[k] <= TenthsF(k - 1)
                    /\ TenthsF(k - 1) - fades[k] <= Ulp(TenthsF(k - 1))
                    /\ k \in {1, 11} => fades[k] = TenthsF(k - 1)
              /\ co.status = "destroyed" => Len(fades) = 11

\* both variants have completed with all their calls made, the integer
\* variant having passed a level that is not the float nearest to a tenth
C26_FadeProgressionUlp_Witness ==
    /\ FadeRuns /\ Delay = TenthF
    /\ co.status = "destroyed" /\ Len(fades) = 11 /\ fades[11] = OneF
    /\ sample \in EngineSamples
    /\ fades[2] = TenthsF(1) - Ulp(TenthsF(1))

---------------------------------------------------------------------------
(* Liveness of the fade-out *)

\* the fade-out samples alone, waiting for a positive time as they do in the
\* source (a wait that is ready at once takes no tick)
FadeInit == Init /\ sample \in EnginePrograms /\ Delay > 0

FadeNext ==
    \/ FadeInvoke
    \/ \E DeltaTime \in DeltaTimes, crash \in Crashes : Tick(DeltaTime, crash)
    \/ CameraInvalidate

\* The engine makes the call it was asked to make, and the core ticker
\* invokes every registered callback on every frame, so a callback that is
\* registered keeps being run.
FairSpec ==
    /\ FadeInit
    /\ [][FadeNext]_vars
    /\ WF_vars(FadeInvoke)
    /\ WF_vars(\E DeltaTime \in DeltaTimes, crash \in Crashes :
                  Tick(DeltaTime, crash))

\* C27: Fade-out liveness.  If the ticker keeps invoking the registered
\* callbacks with positive DeltaTime, CoroFadeOut eventually runs to
\* completion and no ticker callback remains registered.
C27_FadeLiveness ==
    sample \in EnginePrograms => <>(Completed(co) /\ tickers = 0)

\* the fade-out completes, with no callback left, in every fair run in
\* which it makes no call on an invalid camera manager
FadeCompletesUnlessInvalidCall ==
    sample \in EnginePrograms =>
        <>((Completed(co) /\ tickers = 0) \/ invalidCalls > 0)

\* the co_await WaitSecondsTask expressions started so far
WaitsStarted == WaitsBetween(0, Len(ev) + 1)

\* CoroFadeOut has completed inside its call: no suspension, no callback
\* registered, no wait started, no call of SetManualCameraFade
CompletedInsideCall ==
    /\ co.status = "destroyed"
    /\ nResume = 0
    /\ tickers = 0
    /\ WaitsStarted = 0
    /\ CountEv("return") = 1
    /\ fades = << >>
    /\ FadeCalls = {}

\* After the call of a fade-out among S: with GWorld null the coroutine
\* has completed inside the call; so has the float variant with a null
\* camera manager; the variant that tests IsValid inside the loop makes no
\* call of SetManualCameraFade on a null camera manager and waits eleven
\* times.
MissingWorld(S) ==
    (sample \in S /\ mainPc = 2) =>
        /\ ~GWorld => CompletedInsideCall
        /\ (sample \in FloatSamples /\ CameraManager = "null")
              => CompletedInsideCall
        /\ (sample \in EngineSamples /\ GWorld /\ CameraManager = "null") =>
              /\ fades = << >>
              /\ FadeCalls = {}
              /\ WaitsStarted <= 11
              /\ WaitsStarted = (IF Delay > 0 THEN nResume + tickers ELSE 11)
              /\ co.status = "destroyed" <=> (WaitsStarted = 11 /\ tickers = 0)

\* C28: Missing world.  If GWorld is null when CoroFadeOut is called the
\* coroutine completes inside the call without suspending, registers no
\* ticker and never calls SetManualCameraFade.  In the variant that tests
\* the camera manager once before the loop a null camera manager has the
\* same effect.  In the variant that tests it inside the loop a camera
\* manager that is not valid suppresses every call of SetManualCameraFade,
\* but all eleven waits still take place.  The README's listing tests
\* GWorld inside the loop and does not satisfy the first sentence.
C28_MissingWorld == MissingWorld(EnginePrograms)

\* the two CoroFadeOut of the sample files, which test GWorld before the
\* loop, behave as C28 says
MissingWorldInSamples == MissingWorld(EngineSamples \cup FloatSamples)

\* the README's CoroFadeOut called without a world: it has made no call of
\* SetManualCameraFade, but it has waited eleven times and has completed
\* in the eleventh callback, not in the call
MissingWorldInReadme ==
    /\ sample \in ReadmeSamples /\ mainPc = 2 /\ ~GWorld
    /\ Delay = TenthF
    /\ co.status = "destroyed" /\ nResume = 11 /\ WaitsStarted = 11
    /\ fades = << >> /\ tickers = 0

---------------------------------------------------------------------------
(* Properties of the generator samples' main *)

\* the generator samples run by their main
MainRun == sample \in GeneratorSamples /\ driver = "main"

\* C29: Driver-loop discipline.  The main of the generator samples calls
\* operator() only immediately after an operator bool call that returned
\* true (once per such call), and it never calls operator bool again after
\* a call that returned false.
C29_LoopDiscipline ==
    /\ [](MainRun =>
            /\ ~ub
            /\ nRead <= 1
            /\ nReadTotal + (IF mainPc = 3 THEN 1 ELSE 0) = nTrue
            /\ advRet = "false" <=> mainPc >= 4)
    /\ [][(MainRun /\ nReadTotal' = nReadTotal + 1)
          => (/\ advRet = "true"
              /\ nRead = 0
              /\ ev[Len(ev)].e = "return"
              /\ nAdvance' = nAdvance)]_vars
    /\ [][(MainRun /\ nAdvance' = nAdvance + 1)
          => (/\ advRet # "false"
              /\ advRet = "true" => nRead = 1)]_vars

C29_LoopDiscipline_Witness ==
    /\ MainRun /\ sample = "Fibonacci" /\ Amount = 3
    /\ mainPc = 5 /\ nAdvance = 4 /\ nTrue = 3 /\ nReadTotal = 3
    /\ advRet = "false" /\ out = Shown(<< 1, 1, 2 >>)

\* the generator samples run by their main, alone, with every Amount up to
\* the first ones whose numbers leave the range of int
MainInit == InitWith((0 - MaxNegative)..MaxRangeAmount) /\ MainRun

MainNext ==
    \/ GenConstruct
    \/ MainWhile
    \/ MainLoopBody
    \/ MainGenReturn

\* main is sequential code: its next statement is always executed
MainFairSpec == MainInit /\ [][MainNext]_vars /\ WF_vars(MainNext)

\* the operator bool calls main's loop makes in all
LoopAdvances ==
    IF sample = "Fibonacci" THEN (IF Amount > 0 THEN Amount ELSE 0) + 1
    ELSE Len(CountToThree) + 1

\* what C30 says of the runs of main
LoopTerminates ==
    /\ nAdvance <= LoopAdvances
    /\ mainPc >= 4 <=> (nAdvance = LoopAdvances /\ advRet = "false")
    /\ mainPc = 4 => (Alive(co) /\ nDestroy = 0)
    /\ mainPc = 5 =>
          (co.status = "destroyed" /\ nDestroy = 1 /\ owners = 0 /\ ~ub)

\* C30 as claimed: Driver-loop termination.  For every Amount the loop
\* `while (generator)` terminates after exactly max(Amount, 0) + 1 calls of
\* operator bool, and the coroutine state is destroyed when main returns.
C30_LoopTermination ==
    /\ [](MainRun => LoopTerminates)
    /\ (MainRun => <>[](mainPc = 5))

\* the Amounts for which no addition of the body leaves the range of int
AmountInRange == sample = "Fibonacci" => Amount <= 46

\* C30, for the Amounts whose numbers an int holds: for every Amount of at
\* most 46 the loop `while (generator)` terminates after exactly
\* max(Amount, 0) + 1 calls of operator bool, and the coroutine state is
\* destroyed when main returns.
C30_LoopTerminationInRange ==
    /\ [](MainRun /\ AmountInRange => LoopTerminates)
    /\ (MainRun /\ AmountInRange => <>[](mainPc = 5))

\* FibonacciGenerator(46): main has left the loop after 47 calls of
\* operator bool and destroyed the coroutine state
C30_LoopTerminationInRange_Witness ==
    /\ MainRun /\ sample = "Fibonacci" /\ Amount = 46
    /\ mainPc = 5 /\ nAdvance = 47 /\ nTrue = 46
    /\ co.status = "destroyed" /\ nDestroy = 1

(***************************************************************************)
(* The range of int in FibonacciGenerator                                  *)
(***************************************************************************)

\* main of the Fibonacci sample alone, with every Amount from 1 up to the
\* first ones whose numbers leave the range of int
RangeInit ==
    /\ InitWith(1..MaxRangeAmount)
    /\ sample = "Fibonacci"
    /\ driver = "main"

RangeSpec == RangeInit /\ [][MainNext]_vars

\* the k-th yielded value is the k-th Fibonacci number, formed without
\* leaving the range of int
ExactFibonacci(k) ==
    /\ yielded[k] \in 1..MaxInt32
    /\ k < 3 => yielded[k] = 1
    /\ k >= 3 => yielded[k] - yielded[k - 1] = yielded[k - 2]

\* C31: for every Amount in 1..46 no addition n1 + n2 of FibonacciGenerator
\* leaves the range of int and every yielded value is a Fibonacci number of
\* at most 2^31 - 1; an addition overflows only in the 47th pass of the
\* loop, and there it does (the exact sum of the 45th and the 46th number
\* exceeds 2^31 - 1), so 47 is the smallest Amount that overflows.
C31_IntegerRange ==
    (sample = "Fibonacci" /\ driver = "main" /\ Amount >= 1) =>
        /\ \A k \in 1..Len(yielded) : k <= 46 => ExactFibonacci(k)
        /\ Len(yielded) >= 46 => yielded[46] = 1836311903
        /\ Amount <= 46 => ~co.ovf /\ ~ub
        /\ co.ovf => co.i = 47 /\ Len(yielded) = 47 /\ Amount >= 47
        /\ ub => /\ Amount >= 47
                 /\ co.i = 46
                 /\ Len(yielded) = 46
                 /\ Int32Overflows(co.n1, co.n2)
        /\ (Amount >= 47 /\ nAdvance >= 47 /\ ~ub) =>
               /\ Len(yielded) >= 47
               /\ yielded[45] > MaxInt32 - yielded[46]
               /\ yielded[47] < 0
        /\ (co.status = "suspended" /\ co.i = 47) => co.ovf

\* Amount 47: 46 numbers were yielded in range, the 46th the largest
\* Fibonacci number an int holds, and the 47th addition has overflowed and
\* left the wrapped sum
C31_IntegerRange_Witness ==
    /\ sample = "Fibonacci"
    /\ driver = "main"
    /\ Amount = 47
    /\ co.status = "suspended"
    /\ co.ovf
    /\ Len(yielded) = 47
    /\ \A k \in 1..46 : ExactFibonacci(k)
    /\ yielded[46] = 1836311903
    /\ yielded[47] = 0 - 1323752223

(***************************************************************************)
(* The ticker callbacks registered for the fade-out coroutine              *)
(***************************************************************************)

\* callbacks registered after step k of the protocol: await_suspend of a
\* WaitSecondsTask registers one, RemoveTicker takes one away
Registered(k) ==
    Cardinality({j \in 1..k : ev[j] = Ev("await_suspend", "WaitSecondsTask")})
        - Cardinality({j \in 1..k : ev[j].e = "RemoveTicker"})

\* the latest of the first k steps that is a suspension at a
\* WaitSecondsTask or a resume, 0 if there is none
RECURSIVE LastWaitStep(_)
LastWaitStep(k) ==
    IF k = 0 THEN 0
    ELSE IF ev[k] = Ev("await_suspend", "WaitSecondsTask") \/ ev[k].e = "resume"
         THEN k
         ELSE LastWaitStep(k - 1)

\* the latest of the first k steps at which control enters or leaves the
\* body, 0 if there is none
RECURSIVE LastControlStep(_)
LastControlStep(k) ==
    IF k = 0 THEN 0
    ELSE IF ev[k].e \in {"call", "resume", "await_suspend", "return"}
         THEN k
         ELSE LastControlStep(k - 1)

\* after step k the coroutine is suspended at a WaitSecondsTask: it has
\* suspended there and has not been resumed since
SuspendedAtWait(k) ==
    LET j == LastWaitStep(k)
    IN  j > 0 /\ ev[j].e = "await_suspend"

\* after step k the body is running: it was called or resumed and has
\* neither suspended nor given control back since
BodyRuns(k) ==
    LET j == LastControlStep(k)
    IN  j > 0 /\ ev[j].e \in {"call", "resume"}

\* after step k the body has completed
CompletedAt(k) == \E j \in 1..k : ev[j].e = "return_void"

\* step k is the RemoveTicker of a ticker callback, with the callback's
\* Handle.resume() as the next step
InsideCallback(k) ==
    /\ k >= 1
    /\ ev[k].e = "RemoveTicker"
    /\ k < Len(ev)
    /\ ev[k + 1].e = "resume"

\* what the step-by-step part of C32 asks of step k and of every later
\* step, given what holds after step k: registered = Registered(k),
\* suspended = SuspendedAtWait(k), runs = BodyRuns(k) and
\* completed = CompletedAt(k), each carried from one step to the next.
\* With everywhere a suspended coroutine has its callback registered after
\* every step; without it, after every step but the RemoveTicker of the
\* callback that is about to resume the coroutine.
RECURSIVE RegistrationHoldsFrom(_, _, _, _, _, _)
RegistrationHoldsFrom(everywhere, k, registered, suspended, runs, completed) ==
    /\ registered \in {0, 1}
    /\ registered = 1 => suspended
    /\ (suspended /\ registered = 0) => (~everywhere /\ InsideCallback(k))
    /\ runs => registered = 0
    /\ completed => registered = 0
    /\ k < Len(ev) =>
          LET e == ev[k + 1]
              waits == (e = Ev("await_suspend", "WaitSecondsTask"))
          IN  RegistrationHoldsFrom(
                  everywhere,
                  k + 1,
                  IF waits THEN registered + 1
                  ELSE IF e.e = "RemoveTicker" THEN registered - 1
                  ELSE registered,
                  IF waits THEN TRUE
                  ELSE IF e.e = "resume" THEN FALSE
                  ELSE suspended,
                  IF e.e \in {"call", "resume"} THEN TRUE
                  ELSE IF e.e \in {"await_suspend", "return"} THEN FALSE
                  ELSE runs,
                  completed \/ e.e = "return_void")

\* what C32 says of the state between two steps of the engine
RegistrationNow ==
    /\ tickers = Registered(Len(ev))
    /\ tickers = 1 <=> co.status = "suspended"
    /\ co.status = "suspended" <=> SuspendedAtWait(Len(ev))
    /\ Completed(co) <=> CompletedAt(Len(ev))

WaitsSuspendedAt(k) ==
    Cardinality({j \in 1..k : ev[j] = Ev("await_suspend", "WaitSecondsTask")})

\* the co_await expressions on a WaitSecondsTask that have finished up to
\* step k: await_resume is their last step, and the task object, a
\* temporary of the expression kept in the coroutine's state, goes with it
WaitsFinishedAt(k) ==
    Cardinality({j \in 1..k : ev[j] = Ev("await_resume", "WaitSecondsTask")})

\* after step k the n-th task that suspended the body still exists
TaskLives(n, k) == WaitsSuspendedAt(k) >= n /\ WaitsFinishedAt(k) < n

\* after step k the coroutine is suspended at the n-th task
SuspendedAtTask(n, k) == WaitsSuspendedAt(k) = n /\ SuspendedAtWait(k)

\* the latest run of the lambda has called Handle.resume()
LambdaResumed == \E x \in DOMAIN touched : touched[x].field = "Handle"

\* C33: Awaiter lifetime.  Every access a run of the ticker lambda makes to
\* the task it has captured by pointer is to TimeRemaining, TickerHandle or
\* Handle and is made while the coroutine is suspended at that very task,
\* whose co_await has not finished; the read of Handle for the resume is
\* the last of them, so that nothing is touched once Handle.resume() has
\* returned, by which time the co_await has finished and the task is gone -
\* on the last wait together with the whole coroutine state.
C33_AwaiterLifetime ==
    sample \in EnginePrograms =>
        /\ \A x \in DOMAIN touched :
              /\ touched[x].field \in {"TimeRemaining", "TickerHandle", "Handle"}
              /\ touched[x].task >= 1
              /\ touched[x].at <= Len(ev)
              /\ LET suspendedAt == WaitsSuspendedAt(touched[x].at)
                 IN  \* SuspendedAtTask and TaskLives of this task, this step
                     /\ suspendedAt = touched[x].task
                     /\ SuspendedAtWait(touched[x].at)
                     /\ WaitsFinishedAt(touched[x].at) < touched[x].task
              /\ touched[x].field = "TickerHandle" =>
                    ev[touched[x].at + 1].e = "RemoveTicker"
              /\ touched[x].field = "Handle" =>
                    /\ ev[touched[x].at + 1].e = "resume"
                    /\ \A y \in DOMAIN touched : touched[y].at <= touched[x].at
        /\ LambdaResumed =>
              /\ ~TaskLives(touched[1].task, Len(ev))
              /\ ~SuspendedAtTask(touched[1].task, Len(ev))
        /\ (LambdaResumed /\ WaitsSuspendedAt(Len(ev)) = touched[1].task) =>
              co.status \in {"destroyed", "crashed"}

\* the last wait of a whole fade-out: the lambda of the eleventh task has
\* used TimeRemaining, TickerHandle and Handle in this order, its resume
\* has completed the coroutine and released its state
C33_AwaiterLifetime_Witness ==
    /\ sample = "FadeOut" /\ GWorld /\ Delay = TenthF
    /\ co.status = "destroyed"
    /\ Len(touched) = 4
    /\ touched[1].field = "TimeRemaining"
    /\ touched[3].field = "TickerHandle"
    /\ touched[4].field = "Handle"
    /\ touched[4].task = 11
    /\ touched[4].at < Len(ev)

=============================================================================
